---- MODULE Spec2Model ----
(***************************************************************************)
(* Authentication core of the password manager: AuthService (Login,        *)
(* Authenticate, Logout, BeginTOTPSetup, EnableTOTP, VerifyTOTPForSession,  *)
(* DisableTOTP) over the PostgreSQL AuthRepository, and the hourly session  *)
(* sweep.                                                                   *)
(*                                                                         *)
(* Every request runs in its own goroutine, so a service call is a process *)
(* whose steps are its repository calls.  A single SQL statement is one    *)
(* atomic step; the RecordTOTPFailure transaction holds the row lock of    *)
(* SELECT ... FOR UPDATE between its two statements; the                   *)
(* ReplaceRecoveryCodes transaction runs at READ COMMITTED, where its      *)
(* DELETE sees only the rows committed when the statement starts.          *)
(* Time is in seconds; the database's NOW() and the service's clock are    *)
(* one clock; in vault_items, where only the order of updated_at matters,  *)
(* NOW() is counted in statements.                                         *)
(*                                                                         *)
(* Next to it: AuthService.Register, the functions of package util called  *)
(* one at a time, and the web client's vault envelope (encryptVaultItem    *)
(* and decryptVaultItem of crypto/adapters.ts), whose state is the memory  *)
(* of one client.  VaultService over the PostgreSQL VaultRepository keeps  *)
(* the vault_items table; each of its calls is one statement.  Where a     *)
(* property is about a storage failure, the statement concerned has a      *)
(* second action in which it fails.                                        *)
(***************************************************************************)
EXTENDS Integers, Sequences, FiniteSets, Bags, TLC

(* ---- program constants ------------------------------------------------ *)
totpMaxAttempts == 5
totpAttemptWindow == 30
totpLockDuration == 300
recoveryCodeCount == 10
sessionTTL == 2592000
totpPeriod == 30
totpDigits == 6

(* ---- bounds of the model ---------------------------------------------- *)
MaxInFlight == 2
MaxTicks == 1
MaxSerialTicks == 2
ShortStep == 20
MaxSecrets == 2
MaxBatches == 2
MaxSessions == 2
MaxCodeIdx == 1
MaxSessionTicks == 2
MaxTime == 240
MaxPast == 60
MaxNewUsers == 2
MaxItems == 2
MaxWrites == 3
KeyLength == 2
NonceLength == 3

\* the registered accounts; u1 is the one that enrols in TOTP
Users == {"u1", "u2"}
MFAUsers == {"u1"}
TickSteps == {ShortStep, totpLockDuration}
SessionTickSteps == {ShortStep, sessionTTL}

(* ---- values ----------------------------------------------------------- *)
\* sql.NullTime / *time.Time
NullTime == [valid |-> FALSE, time |-> 0]
SomeTime(t) == [valid |-> TRUE, time |-> t]

\* characters of the e-mail strings the model enumerates
Lower(ch) == IF ch = "A" THEN "a" ELSE IF ch = "B" THEN "b" ELSE ch

RECURSIVE TrimLeft(_)
TrimLeft(s) == IF s /= <<>> /\ Head(s) = " " THEN TrimLeft(Tail(s)) ELSE s

RECURSIVE TrimRight(_)
TrimRight(s) ==
    IF s /= <<>> /\ s[Len(s)] = " " THEN TrimRight(SubSeq(s, 1, Len(s) - 1)) ELSE s

\* strings.TrimSpace
TrimOrEmpty(s) == TrimRight(TrimLeft(s))

\* strings.ToLower(strings.TrimSpace(email))
LowerTrimmed(email) ==
    LET t == TrimOrEmpty(email) IN [i \in 1..Len(t) |-> Lower(t[i])]

RegisteredEmail == <<"a">>
RegisteredPassword == "pw1"
RegisteredSalt == "salt1"
OtherEmail == <<"c">>
OtherPassword == "pw2"
OtherSalt == "salt2"
KnownEmail == <<" ", "A", " ">>
UnknownEmail == <<"b">>
BlankEmail == <<" ">>
RawEmails == { KnownEmail, UnknownEmail, BlankEmail }

\* util.NormalizeEmail(email).  For the e-mails of the requests above the
\* result is computed once and looked up.
NormalizedRawEmails == [email \in RawEmails |-> LowerTrimmed(email)]
NormalizeEmail(email) ==
    IF email \in RawEmails THEN NormalizedRawEmails[email] ELSE LowerTrimmed(email)
Passwords == {"pw1", "pw2", ""}

Salts == {RegisteredSalt, OtherSalt}

\* The characters of a password, each by its class and the number of bytes
\* of its UTF-8 encoding: upper-case letter (U), lower-case letter (l),
\* number (n), punctuation or symbol (s).  pw1 and pw2 are passwords
\* Register accepts; "nodigit" has eight bytes and no number, "short" has
\* every class and seven bytes, "accent" has every class and seven
\* characters, one of them a letter of two bytes.
Char(class, bytes) == [class |-> class, bytes |-> bytes]
Ascii(classes) == [i \in 1..Len(classes) |-> Char(classes[i], 1)]
PasswordChars(password) ==
    IF password = "pw1" THEN Ascii(<<"U", "l", "l", "l", "l", "n", "n", "s">>)
    ELSE IF password = "pw2" THEN Ascii(<<"l", "U", "n", "s", "l", "l", "l", "l", "l">>)
    ELSE IF password = "nodigit" THEN Ascii(<<"U", "l", "l", "l", "l", "l", "l", "s">>)
    ELSE IF password = "short" THEN Ascii(<<"U", "l", "n", "s", "l", "l", "l">>)
    ELSE IF password = "accent"
    THEN <<Char("U", 1), Char("l", 2)>> \o Ascii(<<"n", "s", "l", "l", "l">>)
    ELSE <<>>
MinPasswordLen == 8

\* len(password): the bytes of the string
RECURSIVE ByteLen(_)
ByteLen(chars) == IF chars = <<>> THEN 0 ELSE Head(chars).bytes + ByteLen(Tail(chars))

\* ValidatePasswordStrength(password) == nil
ValidatePasswordStrength(password) ==
    LET chars == PasswordChars(password)
        has(class) == \E i \in 1..Len(chars) : chars[i].class = class
    IN  ByteLen(chars) >= MinPasswordLen /\ has("U") /\ has("l") /\ has("n") /\ has("s")

\* domain.Argon2Params: memory, iterations and key_length are uint32,
\* parallelism is uint8.  The numbers of the model stay below 2^31, so only
\* the width of parallelism can be exceeded.
Argon2Params(memory, iterations, parallelism, keyLength) ==
    [memory |-> memory, iterations |-> iterations, parallelism |-> parallelism,
     keyLength |-> keyLength]
MaxUint8 == 255
MaxInt32 == 2147483647
ZeroParams == Argon2Params(0, 0, 0, 0)
DefaultArgon2Params == Argon2Params(64 * 1024, 3, 2, 32)

\* parameter sets that are valid: every field positive and within its width
ValidParams ==
    { DefaultArgon2Params, Argon2Params(1, 1, 1, 1),
      Argon2Params(MaxInt32, MaxInt32, MaxUint8, MaxInt32) }

\* The bytes of a params value.  They are nothing at all ("empty"), a text
\* that is not JSON ("malformed"), a JSON value that is no object ("value"),
\* the JSON null ("null"), or a JSON object, given by its members in order.
RawEmpty == [kind |-> "empty", members |-> <<>>]
RawMalformed == [kind |-> "malformed", members |-> <<>>]
RawValue == [kind |-> "value", members |-> <<>>]
RawNull == [kind |-> "null", members |-> <<>>]
RawObject(members) == [kind |-> "object", members |-> members]
Member(key, val) == [key |-> key, val |-> val]

\* the json tags of domain.Argon2Params
ParamKeys == {"memory", "iterations", "parallelism", "key_length"}

\* json.Marshal(params)
MarshalArgon2Params(params) ==
    RawObject(<<Member("memory", params.memory), Member("iterations", params.iterations),
                Member("parallelism", params.parallelism),
                Member("key_length", params.keyLength)>>)

\* json.Unmarshal finds the field of a member by its name: the json tag
\* equal to the key, or else the tag equal to it with the case of letters
\* ignored.  The tags are in lower case, so a key goes to the field whose
\* tag is the key in lower case; the keys of the model are the tags, these
\* three spellings of them, and names of no field.
foldName(key) ==
    IF key \in {"Memory", "MEMORY"} THEN "memory"
    ELSE IF key = "Key_Length" THEN "key_length"
    ELSE key

\* a number json.Unmarshal cannot store in the field of a member: a
\* negative one, or one too large for the uint8 of parallelism
Overflows(member) ==
    \/ member.val < 0 /\ foldName(member.key) \in ParamKeys
    \/ member.val > MaxUint8 /\ foldName(member.key) = "parallelism"

\* json.Unmarshal: the number left in the field of key, that of the last
\* member of this name whose number the field can store, 0 when there is
\* none; a member whose number it cannot store leaves the field as it is
FieldOf(members, key) ==
    LET named == { i \in 1..Len(members) :
                     foldName(members[i].key) = key /\ ~Overflows(members[i]) }
    IN  IF named = {} THEN 0
        ELSE members[CHOOSE i \in named : \A j \in named : j <= i].val

\* json.Unmarshal(raw, &params): whether it returns an error.  A member of
\* another name is skipped; a number that is negative or too large for the
\* field is an UnmarshalTypeError, returned after the other members are read.
UnmarshalFails(raw) ==
    \/ raw.kind \in {"malformed", "value"}
    \/ \E i \in 1..Len(raw.members) : Overflows(raw.members[i])

Unmarshalled(raw) ==
    Argon2Params(FieldOf(raw.members, "memory"), FieldOf(raw.members, "iterations"),
                 FieldOf(raw.members, "parallelism"), FieldOf(raw.members, "key_length"))

\* ParseArgon2Params that fills the fields left at zero from the defaults
ParseArgon2ParamsDefaulting(raw) ==
    LET p == Unmarshalled(raw)
        fill(v, d) == IF v = 0 THEN d ELSE v
    IN  IF raw.kind = "empty" \/ UnmarshalFails(raw)
        THEN [err |-> "none", params |-> DefaultArgon2Params]
        ELSE [err |-> "none",
              params |-> Argon2Params(fill(p.memory, DefaultArgon2Params.memory),
                                      fill(p.iterations, DefaultArgon2Params.iterations),
                                      fill(p.parallelism, DefaultArgon2Params.parallelism),
                                      fill(p.keyLength, DefaultArgon2Params.keyLength))]

\* ParseArgon2Params(raw): the error it returns, "none" for nil, and params
\* as it stands at the return: the zero value before json.Unmarshal, what
\* json.Unmarshal has stored in it after
ParseArgon2Params(raw) ==
    IF raw.kind = "empty" THEN [err |-> "empty argon2 params", params |-> ZeroParams]
    ELSE LET p == Unmarshalled(raw)
         IN  IF UnmarshalFails(raw) THEN [err |-> "unmarshal", params |-> p]
             ELSE IF p.keyLength = 0 \/ p.iterations = 0 \/ p.memory = 0 \/ p.parallelism = 0
             THEN [err |-> "invalid argon2 params", params |-> p]
             ELSE [err |-> "none", params |-> p]

\* ParseArgon2Params(record.Params) in Login.  Register stores the default
\* parameters in every account, so what ParseArgon2Params returns for them
\* is computed once and looked up.
DefaultParamsStored == MarshalArgon2Params(DefaultArgon2Params)
DefaultParamsParsed == ParseArgon2Params(DefaultParamsStored)
ParseStoredParams(raw) ==
    IF raw = DefaultParamsStored THEN DefaultParamsParsed ELSE ParseArgon2Params(raw)

\* argon2.IDKey, taken as injective in the password, the salt and the parameters
Argon2(password, salt, params) == <<"argon2id", password, salt, params>>

\* HashPassword(password, params), salt being the 16 random bytes it draws
HashPassword(password, params, salt) ==
    [salt |-> salt, hash |-> Argon2(password, salt, params)]

\* VerifyPassword that compares the lengths of the two hashes only
VerifyPasswordLengthOnly(password, salt, expected, params) ==
    Argon2(password, salt, params)[4].keyLength = expected[4].keyLength

\* subtle.ConstantTimeCompare(argon2(password, salt, params), expected) == 1
VerifyPassword(password, salt, expected, params) == Argon2(password, salt, params) = expected

\* One-time codes.  A code string is the 6-digit HOTP value of secret s at
\* counter c ("otp"), a 6-digit string that is no secret's value ("guess"),
\* a string whose length is not 6 ("short"), or the empty string.
EmptyCode == [k |-> "empty", s |-> 0, c |-> 0]
GuessCode == [k |-> "guess", s |-> 0, c |-> 0]
ShortCode == [k |-> "short", s |-> 0, c |-> 0]
OTP(s, c) == [k |-> "otp", s |-> s, c |-> c]
CodeLen(code) == IF code.k = "empty" THEN 0 ELSE IF code.k = "short" THEN 4 ELSE totpDigits

\* counterFromTime that adds the offset in seconds, not in periods
counterFromTimeUnscaled(now, offset) ==
    LET seconds == now + offset
    IN  IF seconds < 0 THEN 0 ELSE seconds \div totpPeriod

\* uint64((now.Unix() + offset*30) / 30), 0 when the sum is negative
counterFromTime(now, offset) ==
    LET seconds == now + offset * totpPeriod
    IN  IF seconds < 0 THEN 0 ELSE seconds \div totpPeriod

totpCodeForCounter(secret, counter) == OTP(secret, counter)

VerifyTOTP(secret, code, now) ==
    /\ CodeLen(code) = totpDigits
    /\ \E offset \in -1..1 : totpCodeForCounter(secret, counterFromTime(now, offset)) = code

\* lockedUntil != nil && lockedUntil.After(now)
isMFALocked(lockedUntil, now) == lockedUntil.valid /\ lockedUntil.time > now

\* Session tokens.  A token is a string of hex digits, the n-th draw of
\* NewOpaqueToken being the two digits of n; draw 0 is never handed out.
HexChars == <<"0", "1", "2", "3", "4", "5", "6", "7", "8", "9", "a", "b", "c", "d", "e", "f">>
NewOpaqueToken(n) == <<HexChars[((n \div 16) % 16) + 1], HexChars[(n % 16) + 1]>>
Pepper == <<"p">>

\* sha256.Sum256(pepper + ":" + token), sha256 taken as injective
HashToken(token, pepper) == <<"sha256", pepper \o <<":">> \o token>>

\* Recovery codes.  Code i of batch b is <<b, i>>; batch 0 is never issued.
NoRecovery == <<0, 0>>
GenerateRecoveryCodes(b, n) == { <<b, i>> : i \in 1..n }
HashRecoveryCode(code) == <<"sha256", code[1], code[2]>>

(* ---- state ------------------------------------------------------------ *)
VARIABLES
    clock,      \* wall clock read by s.now()
    ticks,      \* number of clock advances so far
    cred,       \* auth_credentials row of each user
    rowLock,    \* whether a transaction holds the FOR UPDATE lock on the user's auth_credentials row
    codeRows,   \* totp_recovery_codes rows of each user; used counts the UPDATEs that set used_at
    sessions,   \* sessions rows; swept marks a row DeleteExpiredSessions has deleted, kept
                \* as the row a table that is never swept would hold
    calls,      \* the service calls in flight (one goroutine each), as a bag of their local states
    ret,        \* the response sent by the step just taken, NoReturn if it sent none
    nextSecret, \* secrets drawn so far + 1
    nextBatch,  \* recovery-code batches drawn so far + 1
    nextToken,  \* session tokens drawn so far + 1
    failHist,   \* history: the RecordTOTPFailure calls since the lockout fields were last cleared
    confirmed,  \* history: secrets for which EnableTOTP verified a code
    probe,      \* the arguments a function of package util is called with, and its result
    vault,      \* the web client: the vault item it holds and the buffers of its last call
    users,      \* users rows, as committed
    items       \* vault_items rows; deleted marks a row DeleteVaultItemForOwner has deleted

vars == <<clock, ticks, cred, rowLock, codeRows, sessions, calls, ret,
          nextSecret, nextBatch, nextToken, failHist, confirmed, probe, vault, users, items>>

\* local state of a call: where it is and what its remaining statements read
\* (now and the recovery code are kept only on the paths that use them)
NewCall(op, pc, u, now, rc) ==
    [op |-> op, pc |-> pc, user |-> u, now |-> now, rc |-> rc,
     batch |-> 0, nf |-> 0, nw |-> NullTime, nl |-> NullTime, email |-> <<>>, pw |-> "",
     salt |-> ""]

\* user is the user_id of the domain.Session an Authenticate returns
Returned(op, res) == [op |-> op, res |-> res, user |-> "none"]
NoReturn == Returned("none", "none")

\* CreateUserWithCredentials: the users row and the auth_credentials row of
\* the account Register creates, as GetUserAuthByEmail joins them
CredOf(email, password, salt) ==
    [email |-> email, hash |-> HashPassword(password, DefaultArgon2Params, salt).hash,
     salt |-> salt, params |-> DefaultParamsStored,
     enabled |-> FALSE, secret |-> 0, failed |-> 0, window |-> NullTime, locked |-> NullTime]

\* CreateUserWithCredentials: the users row of an account
UserRow(id, email) == [id |-> id, email |-> email]

NewCred == CredOf(RegisteredEmail, RegisteredPassword, RegisteredSalt)

NoHist == [n |-> 0, first |-> 0, fifth |-> 0, held |-> 0, ok |-> TRUE]
LostHist == [n |-> 0, first |-> 0, fifth |-> 0, held |-> 0, ok |-> FALSE]

\* no util function under test, no vault item
NoProbe == [fn |-> "none", done |-> FALSE, out |-> "none"]
NoVault == [stage |-> "none"]

\* the server after construction, with the two accounts registered and
\* first as the row of u1
InitTables(first) ==
    /\ clock = 0
    /\ ticks = 0
    /\ cred = [u \in Users |-> IF u = "u1" THEN first ELSE CredOf(OtherEmail, OtherPassword, OtherSalt)]
    /\ rowLock = [u \in Users |-> FALSE]
    /\ codeRows = [u \in Users |-> {}]
    /\ sessions = {}
    /\ calls = EmptyBag
    /\ ret = NoReturn
    /\ nextSecret = 1
    /\ nextBatch = 1
    /\ nextToken = 1
    /\ failHist = [u \in Users |-> NoHist]
    /\ confirmed = [u \in Users |-> {}]
    /\ users = { UserRow(u, IF u = "u1" THEN first.email ELSE OtherEmail) : u \in Users }
    /\ items = {}

InitServer == InitTables(NewCred)

Init ==
    /\ InitServer
    /\ probe = NoProbe
    /\ vault = NoVault

InFlight == BagToSet(calls)
One(c) == SetToBag({c})

\* The code reads the clock only to compare it with a stored time or with
\* the now of a call in flight.  While neither exists, letting time pass
\* leads to the same states shifted in time, so time passes only when a
\* window, a lock or a call's now is there to observe it.
TimeObserved ==
    \/ \E u \in Users : cred[u].window.valid \/ cred[u].locked.valid
    \/ \E c \in InFlight : c.pc \in {"consume", "fail_select", "fail_update"}

\* time passes by one of steps, at most limit times
TickUpTo(limit, steps) ==
    /\ ticks < limit
    /\ TimeObserved
    /\ \E d \in steps : clock' = clock + d
    /\ ticks' = ticks + 1
    /\ ret' = NoReturn
    /\ UNCHANGED <<users, items, probe, vault, cred, rowLock, codeRows, sessions, calls, nextSecret, nextBatch,
                   nextToken, failHist, confirmed>>

\* between concurrent calls time jumps by the lock duration; the serial runs
\* also take short steps that stay inside a window
Tick == TickUpTo(MaxTicks, {totpLockDuration})
SerialTick == TickUpTo(MaxSerialTicks, TickSteps)

(* ---- inputs of a request ---------------------------------------------- *)
\* one-time codes a client can type now: the value of a secret handed out so
\* far at the current time step or two steps earlier, a wrong guess, nothing
TOTPInputs ==
    {EmptyCode, GuessCode}
        \cup { OTP(s, counterFromTime(clock, k)) : s \in 1..(nextSecret - 1), k \in {-2, 0} }

\* recovery codes a client can type: none, one never issued, a code of an issued batch
RecoveryInputs ==
    {NoRecovery} \cup { <<b, i>> : b \in 0..(nextBatch - 1), i \in 1..MaxCodeIdx }

\* the recovery codes handed to a client so far
IssuedCodes == { <<b, i>> : b \in 1..(nextBatch - 1), i \in 1..MaxCodeIdx }

\* the requests of concurrent clients that have the password right: one
\* factor at most, or both
FactorLoginInputs ==
    { [email |-> KnownEmail, password |-> "pw1", totp |-> f[1], recovery |-> f[2]] :
        f \in ({ <<t, NoRecovery>> : t \in TOTPInputs }
                 \cup { <<EmptyCode, r>> : r \in IssuedCodes }
                 \cup { <<GuessCode, <<0, 1>> >> }) }

\* these, and a request for no account and one with a wrong password
LoginInputs ==
    FactorLoginInputs
      \cup { [email |-> UnknownEmail, password |-> "pw1", totp |-> EmptyCode, recovery |-> NoRecovery],
             [email |-> KnownEmail, password |-> "pw2", totp |-> EmptyCode, recovery |-> NoRecovery] }

\* every combination of request fields, malformed ones included
AllLoginInputs ==
    [email : RawEmails, password : Passwords,
     totp : TOTPInputs \cup {ShortCode}, recovery : RecoveryInputs]

(* ---- history of recorded failures ------------------------------------- *)
\* the first totpMaxAttempts RecordTOTPFailure calls since the lockout fields
\* were cleared, as long as each falls inside the window opened by the first,
\* and the number of calls that came while the lock of the fifth was in force
NoteFailure(h, now) ==
    IF ~h.ok THEN h
    ELSE IF h.n = 0 THEN [h EXCEPT !.n = 1, !.first = now]
    ELSE IF h.n = totpMaxAttempts
         THEN (IF now < h.fifth + totpLockDuration THEN [h EXCEPT !.held = 1] ELSE LostHist)
    ELSE IF now < h.first \/ now - h.first > totpAttemptWindow THEN LostHist
    ELSE [h EXCEPT !.n = h.n + 1, !.fifth = IF h.n + 1 = totpMaxAttempts THEN now ELSE 0]

(* ---- AuthRepository --------------------------------------------------- *)
\* SELECT ... FROM users u JOIN auth_credentials ac ... WHERE u.email = $1
GetUserAuthByEmail(email) == { u \in DOMAIN cred : cred[u].email = email }

\* UniqueViolation without the UNIQUE constraint
UniqueViolationNever(emails, email) == FALSE

\* users.email TEXT UNIQUE: whether an INSERT of email fails with SQLSTATE
\* 23505 against the committed rows
UniqueViolation(emails, email) == email \in emails

\* SelectForUpdate without FOR UPDATE: a plain read followed by a write
SelectPlain == FALSE

\* whether the SELECT of RecordTOTPFailure leaves the row locked (FOR UPDATE)
SelectForUpdate == TRUE

\* NextFailureState whose window, once opened, never expires
NextFailureStateOneWindow(row, now, maxAttempts, window, lockDuration) ==
    LET reopen == ~row.window.valid
        failed == (IF reopen THEN 0 ELSE row.failed) + 1
        start  == IF reopen THEN SomeTime(now) ELSE row.window
    IN  IF failed >= maxAttempts
        THEN [failed |-> 0, window |-> NullTime, locked |-> SomeTime(now + lockDuration)]
        ELSE [failed |-> failed, window |-> start, locked |-> NullTime]

\* NextFailureState with > for >=: the lock comes one failure too late
NextFailureStateLate(row, now, maxAttempts, window, lockDuration) ==
    LET reopen == ~row.window.valid \/ now - row.window.time > window
        failed == (IF reopen THEN 0 ELSE row.failed) + 1
        start  == IF reopen THEN SomeTime(now) ELSE row.window
    IN  IF failed > maxAttempts
        THEN [failed |-> 0, window |-> NullTime, locked |-> SomeTime(now + lockDuration)]
        ELSE [failed |-> failed, window |-> start, locked |-> NullTime]

\* RecordTOTPFailure between its SELECT and its UPDATE: the new
\* (failed_attempts, window_started_at, locked_until) of an account that is not locked
NextFailureState(row, now, maxAttempts, window, lockDuration) ==
    LET reopen == ~row.window.valid \/ now - row.window.time > window
        failed == (IF reopen THEN 0 ELSE row.failed) + 1
        start  == IF reopen THEN SomeTime(now) ELSE row.window
    IN  IF failed >= maxAttempts
        THEN [failed |-> 0, window |-> NullTime, locked |-> SomeTime(now + lockDuration)]
        ELSE [failed |-> failed, window |-> start, locked |-> NullTime]

\* ClearedLockout that leaves totp_failed_attempts as it is
ClearedLockoutKeepsCount(row) ==
    [row EXCEPT !.window = NullTime, !.locked = NullTime]

\* the columns SetTOTPSecret, EnableTOTP and ResetTOTPFailures all clear
ClearedLockout(row) ==
    [row EXCEPT !.failed = 0, !.window = NullTime, !.locked = NullTime]

\* ConsumeMatches without "AND used_at IS NULL": a read-then-write consumption
ConsumeMatchesAnyRow(rows, codeHash) == { r \in rows : r.hash = codeHash }

\* UPDATE totp_recovery_codes ... WHERE user_id = $1 AND code_hash = $2 AND used_at IS NULL
ConsumeMatches(rows, codeHash) == { r \in rows : r.hash = codeHash /\ r.used = 0 }

\* ReplaceRecoveryCodes without its DELETE
RowsAfterDeleteKept(rows) == rows

\* DELETE FROM totp_recovery_codes WHERE user_id = $1: the rows left
RowsAfterDelete(rows) == {}

\* INSERT INTO totp_recovery_codes (user_id, code_hash, created_at), one row per hash
InsertedRows(hashes) == { [hash |-> h, used |-> 0] : h \in hashes }

\* the rows the sessions table holds
Stored(rows) == { r \in rows : ~r.swept }

\* GetActiveSessionByTokenHash without "AND s.revoked_at IS NULL"
ActiveSessionsUnrevoked(rows, tokenHash, now) ==
    { r \in rows : r.tokenHash = tokenHash /\ r.expiresAt > now }

\* SELECT ... FROM sessions s ... WHERE s.refresh_token_hash = $1
\*   AND s.revoked_at IS NULL AND s.expires_at > NOW()
GetActiveSessionByTokenHash(rows, tokenHash, now) ==
    { r \in rows : r.tokenHash = tokenHash /\ ~r.revokedAt.valid /\ r.expiresAt > now }

\* RevokeMatches without "refresh_token_hash = $1": a Logout revokes every session
RevokeMatchesEverySession(rows, tokenHash) == { r \in rows : ~r.revokedAt.valid }

\* RevokeMatches without "AND revoked_at IS NULL": every Logout stamps the row again
RevokeMatchesAnyRow(rows, tokenHash) == { r \in rows : r.tokenHash = tokenHash }

\* UPDATE sessions SET revoked_at = NOW() WHERE refresh_token_hash = $1 AND revoked_at IS NULL:
\* the rows it updates
RevokeMatches(rows, tokenHash) ==
    { r \in rows : r.tokenHash = tokenHash /\ ~r.revokedAt.valid }

\* SweepMatches with the comparison turned round
SweepMatchesLive(row, now) == row.expiresAt > now \/ row.revokedAt.valid

\* DELETE FROM sessions WHERE expires_at < NOW() OR revoked_at IS NOT NULL: the rows it deletes
SweepMatches(row, now) == row.expiresAt < now \/ row.revokedAt.valid

(* ---- AuthService.Login ------------------------------------------------ *)
\* ValidateLoginInput with its two checks in the other order
ValidateLoginInputFactorsFirst(in) ==
    IF in.totp /= EmptyCode /\ in.recovery /= NoRecovery THEN "InvalidMFAInput"
    ELSE IF NormalizeEmail(in.email) = <<>> \/ in.password = "" THEN "InvalidCredentials"
    ELSE "ok"

\* ValidateLoginInput without the both-factors check
ValidateLoginInputLax(in) ==
    IF NormalizeEmail(in.email) = <<>> \/ in.password = "" THEN "InvalidCredentials" ELSE "ok"

\* Login before it reads the database: the empty-field check and the
\* both-factors check
ValidateLoginInput(in) ==
    IF NormalizeEmail(in.email) = <<>> \/ in.password = "" THEN "InvalidCredentials"
    ELSE IF in.totp /= EmptyCode /\ in.recovery /= NoRecovery THEN "InvalidMFAInput"
    ELSE "ok"

\* CheckCredentials without its VerifyPassword check
CheckCredentialsAnyPassword(in, found, record) ==
    IF ~found THEN "InvalidCredentials" ELSE "ok"

\* CheckCredentials telling an unknown e-mail from a wrong password
CheckCredentialsNotFound(in, found, record) ==
    IF ~found THEN "NotFound"
    ELSE LET parsed == ParseStoredParams(record.params)
         IN  IF parsed.err /= "none" THEN "InternalError"
             ELSE IF ~VerifyPassword(in.password, record.salt, record.hash, parsed.params)
             THEN "InvalidCredentials"
             ELSE "ok"

\* Login on what GetUserAuthByEmail returned: ErrNotFound, then
\* ParseArgon2Params, whose error Login wraps ("parse hash params") and
\* returns as it is, then VerifyPassword with the parameters parsed
CheckCredentials(in, found, record) ==
    IF ~found THEN "InvalidCredentials"
    ELSE LET parsed == ParseStoredParams(record.params)
         IN  IF parsed.err /= "none" THEN "InternalError"
             ELSE IF ~VerifyPassword(in.password, record.salt, record.hash, parsed.params)
             THEN "InvalidCredentials"
             ELSE "ok"

\* CheckMFA without the MFARequired step: a missing factor counts as a wrong code
CheckMFANoPrompt(in, record, now) ==
    IF isMFALocked(record.locked, now)
    THEN [pc |-> "done", res |-> "MFARateLimited"]
    ELSE IF in.recovery /= NoRecovery
    THEN [pc |-> "consume", res |-> "none"]
    ELSE IF ~VerifyTOTP(record.secret, in.totp, now)
    THEN [pc |-> "fail_select", res |-> "none"]
    ELSE [pc |-> "reset", res |-> "none"]

\* CheckMFA with the lock looked at only once the factor has failed
CheckMFALockLast(in, record, now) ==
    IF in.totp = EmptyCode /\ in.recovery = NoRecovery
    THEN [pc |-> "done", res |-> "MFARequired"]
    ELSE IF in.recovery /= NoRecovery
    THEN [pc |-> "consume", res |-> "none"]
    ELSE IF VerifyTOTP(record.secret, in.totp, now)
    THEN [pc |-> "reset", res |-> "none"]
    ELSE IF isMFALocked(record.locked, now)
    THEN [pc |-> "done", res |-> "MFARateLimited"]
    ELSE [pc |-> "fail_select", res |-> "none"]

\* Login's MFA step for a record with TOTP enabled, up to its first
\* repository write: the result when it returns at once, else where it goes
CheckMFA(in, record, now) ==
    IF isMFALocked(record.locked, now)
    THEN [pc |-> "done", res |-> "MFARateLimited"]
    ELSE IF in.totp = EmptyCode /\ in.recovery = NoRecovery
    THEN [pc |-> "done", res |-> "MFARequired"]
    ELSE IF in.recovery /= NoRecovery
    THEN [pc |-> "consume", res |-> "none"]
    ELSE IF ~VerifyTOTP(record.secret, in.totp, now)
    THEN [pc |-> "fail_select", res |-> "none"]
    ELSE [pc |-> "reset", res |-> "none"]

\* LoginOutcome with the lock looked at before record.TOTPEnabled
LoginOutcomeLockFirst(in, found, record, now) ==
    LET valid == ValidateLoginInput(in)
        checked == CheckCredentials(in, found, record)
    IN  IF valid /= "ok" THEN [pc |-> "done", res |-> valid]
        ELSE IF checked /= "ok" THEN [pc |-> "done", res |-> checked]
        ELSE IF isMFALocked(record.locked, now) THEN [pc |-> "done", res |-> "MFARateLimited"]
        ELSE IF ~record.enabled THEN [pc |-> "session", res |-> "none"]
        ELSE CheckMFA(in, record, now)

\* Login up to its first repository write: where the call goes next, and
\* the result when it returns at once.  found and record are what
\* GetUserAuthByEmail returned, now is s.now().
LoginOutcome(in, found, record, now) ==
    LET valid == ValidateLoginInput(in)
        checked == CheckCredentials(in, found, record)
    IN  IF valid /= "ok" THEN [pc |-> "done", res |-> valid]
        ELSE IF checked /= "ok" THEN [pc |-> "done", res |-> checked]
        ELSE IF ~record.enabled THEN [pc |-> "session", res |-> "none"]
        ELSE CheckMFA(in, record, now)

\* number of calls of one operation in flight
CountOp(op) ==
    BagCardinality([c \in { x \in InFlight : x.op = op } |-> calls[c]])

\* Login calls in flight that may still create a session
Admissible ==
    BagCardinality([c \in { x \in InFlight : x.op = "login" /\ x.pc /= "fail_select"
                                                /\ x.pc /= "fail_update" } |-> calls[c]])

LoginFound(in) == GetUserAuthByEmail(NormalizeEmail(in.email)) /= {}
LoginUser(in) ==
    LET rows == GetUserAuthByEmail(NormalizeEmail(in.email))
    IN  IF rows /= {} THEN CHOOSE x \in rows : TRUE ELSE "u1"
LoginRecord(in) == cred[LoginUser(in)]

LoginStart(in) ==
    /\ BagCardinality(calls) < MaxInFlight
    /\ LET rows == GetUserAuthByEmail(NormalizeEmail(in.email))
           user == IF rows /= {} THEN CHOOSE x \in rows : TRUE ELSE "u1"
           out == LoginOutcome(in, rows /= {}, cred[user], clock)
       IN  IF out.pc = "done"
           THEN /\ ret' = Returned("login", out.res)
                /\ UNCHANGED calls
           ELSE /\ out.pc = "fail_select" \/ nextToken + Admissible <= MaxSessions
                /\ calls' = calls (+) One(NewCall("login", out.pc, user,
                                                   IF out.pc \in {"consume", "fail_select"}
                                                   THEN clock ELSE 0,
                                                   IF out.pc = "consume"
                                                   THEN in.recovery ELSE NoRecovery))
                /\ ret' = NoReturn
    /\ UNCHANGED <<users, items, probe, vault, clock, ticks, cred, rowLock, codeRows, sessions, nextSecret,
                   nextBatch, nextToken, failHist, confirmed>>

\* s.repo.ConsumeRecoveryCode(ctx, record.UserID, HashRecoveryCode(code))
LoginConsume(c) ==
    /\ c \in InFlight /\ c.pc = "consume"
    /\ LET hit == ConsumeMatches(codeRows[c.user], HashRecoveryCode(c.rc))
       IN  /\ codeRows' = [codeRows EXCEPT ![c.user] =
                    (@ \ hit) \cup { [r EXCEPT !.used = @ + 1] : r \in hit }]
           /\ calls' = (calls (-) One(c))
                         (+) One(IF hit /= {} THEN [c EXCEPT !.pc = "reset", !.now = 0]
                                 ELSE [c EXCEPT !.pc = "fail_select"])
    /\ ret' = NoReturn
    /\ UNCHANGED <<users, items, probe, vault, clock, ticks, cred, rowLock, sessions, nextSecret, nextBatch,
                   nextToken, failHist, confirmed>>

\* recordMFAFailure with Before for After
recordMFAFailureBefore(lockedUntil, now) ==
    IF lockedUntil.valid /\ lockedUntil.time < now THEN "MFARateLimited" ELSE "InvalidMFA"

\* recordMFAFailure: what the caller gets for the lock expiry RecordTOTPFailure returned
recordMFAFailure(lockedUntil, now) ==
    IF isMFALocked(lockedUntil, now) THEN "MFARateLimited" ELSE "InvalidMFA"

\* StillLocked that never holds: RecordTOTPFailure without its early return
StillLockedNever(lockedUntil, now) == FALSE

\* lockedUntil.Valid && lockedUntil.Time.After(nowUTC), on the row RecordTOTPFailure selected
StillLocked(lockedUntil, now) == lockedUntil.valid /\ lockedUntil.time > now

\* RecordTOTPFailure, first statement: BEGIN; SELECT ... FOR UPDATE; with
\* the early return (COMMIT) when the account is locked
FailSelect(c) ==
    /\ c \in InFlight /\ c.pc = "fail_select"
    /\ ~rowLock[c.user]
    /\ LET row == cred[c.user]
       IN  IF StillLocked(row.locked, c.now)
           THEN /\ calls' = calls (-) One(c)
                /\ ret' = Returned(c.op, recordMFAFailure(row.locked, c.now))
                /\ failHist' = [failHist EXCEPT ![c.user] = NoteFailure(@, c.now)]
                /\ UNCHANGED rowLock
           ELSE LET nxt == NextFailureState(row, c.now, totpMaxAttempts,
                                            totpAttemptWindow, totpLockDuration)
                IN  /\ calls' = (calls (-) One(c))
                                  (+) One([c EXCEPT !.pc = "fail_update", !.nf = nxt.failed,
                                                    !.nw = nxt.window, !.nl = nxt.locked])
                    /\ rowLock' = [rowLock EXCEPT ![c.user] = SelectForUpdate]
                    /\ ret' = NoReturn
                    /\ UNCHANGED failHist
    /\ UNCHANGED <<users, items, probe, vault, clock, ticks, cred, codeRows, sessions, nextSecret, nextBatch,
                   nextToken, confirmed>>

\* RecordTOTPFailure, second statement: UPDATE auth_credentials ...; COMMIT
FailUpdate(c) ==
    /\ c \in InFlight /\ c.pc = "fail_update"
    /\ cred' = [cred EXCEPT ![c.user].failed = c.nf, ![c.user].window = c.nw,
                            ![c.user].locked = c.nl]
    /\ rowLock' = [rowLock EXCEPT ![c.user] = FALSE]
    /\ failHist' = [failHist EXCEPT ![c.user] = NoteFailure(@, c.now)]
    /\ calls' = calls (-) One(c)
    /\ ret' = Returned(c.op, recordMFAFailure(c.nl, c.now))
    /\ UNCHANGED <<users, items, probe, vault, clock, ticks, codeRows, sessions, nextSecret, nextBatch, nextToken,
                   confirmed>>

\* s.repo.ResetTOTPFailures(ctx, userID)
ResetFailures(c) ==
    /\ c \in InFlight /\ c.pc = "reset"
    /\ ~rowLock[c.user]
    /\ cred' = [cred EXCEPT ![c.user] = ClearedLockout(@)]
    /\ failHist' = [failHist EXCEPT ![c.user] = NoHist]
    /\ IF c.op = "verify"
       THEN /\ calls' = calls (-) One(c)
            /\ ret' = Returned("verify", "Verified")
       ELSE /\ calls' = (calls (-) One(c))
                          (+) One([c EXCEPT !.pc = IF c.op = "login" THEN "session"
                                                   ELSE "replace_delete"])
            /\ ret' = NoReturn
    /\ UNCHANGED <<users, items, probe, vault, clock, ticks, rowLock, codeRows, sessions, nextSecret, nextBatch,
                   nextToken, confirmed>>

\* NewOpaqueToken, s.repo.CreateSession
LoginSession(c) ==
    /\ c \in InFlight /\ c.pc = "session"
    /\ nextToken <= MaxSessions
    /\ sessions' = sessions \cup
            { [tokenHash |-> HashToken(NewOpaqueToken(nextToken), Pepper), user |-> c.user,
               expiresAt |-> clock + sessionTTL, revokedAt |-> NullTime, swept |-> FALSE] }
    /\ nextToken' = nextToken + 1
    /\ calls' = calls (-) One(c)
    /\ ret' = Returned("login", "Session")
    /\ UNCHANGED <<users, items, probe, vault, clock, ticks, cred, rowLock, codeRows, nextSecret, nextBatch,
                   failHist, confirmed>>

\* Login when s.repo.ResetTOTPFailures returns an error: "reset totp failures"
LoginResetFails(c) ==
    /\ c \in InFlight /\ c.op = "login" /\ c.pc = "reset"
    /\ calls' = calls (-) One(c)
    /\ ret' = Returned("login", "StorageError")
    /\ UNCHANGED <<users, items, probe, vault, clock, ticks, cred, rowLock, codeRows, sessions, nextSecret,
                   nextBatch, nextToken, failHist, confirmed>>

\* Login when NewOpaqueToken, NewUUID or s.repo.CreateSession returns an error
LoginSessionFails(c) ==
    /\ c \in InFlight /\ c.op = "login" /\ c.pc = "session"
    /\ calls' = calls (-) One(c)
    /\ ret' = Returned("login", "StorageError")
    /\ UNCHANGED <<users, items, probe, vault, clock, ticks, cred, rowLock, codeRows, sessions, nextSecret,
                   nextBatch, nextToken, failHist, confirmed>>

(* ---- AuthService.Register ---------------------------------------------- *)
\* util.NewUUID: the ids it draws, none of them twice among the accounts
\* and the calls that exist
UUIDs == <<"u3", "u4", "u5">>
UsedIDs == DOMAIN cred \cup { c.user : c \in InFlight }
NewUUID == UUIDs[CHOOSE i \in 1..Len(UUIDs) : UUIDs[i] \notin UsedIDs
                                              /\ \A j \in 1..(i - 1) : UUIDs[j] \in UsedIDs]

\* Register before it reaches the repository: "ok", or the error it returns
RegisterOutcome(email, password) ==
    IF NormalizeEmail(email) = <<>> THEN "InvalidCredentials"
    ELSE IF ~ValidatePasswordStrength(password) THEN "WeakPassword"
    ELSE "ok"

\* Register: the checks, HashPassword with a fresh salt, NewUUID
RegisterStart(email, password, salt) ==
    /\ BagCardinality(calls) < MaxInFlight
    /\ IF RegisterOutcome(email, password) /= "ok"
       THEN /\ ret' = Returned("register", RegisterOutcome(email, password))
            /\ UNCHANGED calls
       ELSE /\ Cardinality(UsedIDs \ Users) < MaxNewUsers
            /\ calls' = calls (+) One([NewCall("register", "insert_user", NewUUID, 0, NoRecovery)
                                          EXCEPT !.email = NormalizeEmail(email),
                                                 !.pw = password, !.salt = salt])
            /\ ret' = NoReturn
    /\ UNCHANGED <<users, items, probe, vault, clock, ticks, cred, rowLock, codeRows, sessions, nextSecret,
                   nextBatch, nextToken, failHist, confirmed>>

\* ROLLBACK without a transaction around the two INSERTs: the users row stays
RolledBackKeepsRows(rows, pending) == rows \cup pending

\* tx.Rollback(): the committed rows of a table a transaction has inserted
\* the rows pending into
RolledBack(rows, pending) == rows

\* the e-mails of the users rows other transactions have inserted and not yet committed
PendingEmails(c) ==
    { x.email : x \in { y \in InFlight : y.op = "register" /\ y.pc = "insert_cred" /\ y /= c } }

\* CreateUserWithCredentials: BEGIN; INSERT INTO users.  The INSERT waits
\* while another transaction holds an uncommitted row with the same e-mail;
\* on a unique violation the transaction is rolled back and Register
\* returns ErrEmailTaken.
RegisterInsertUser(c) ==
    /\ c \in InFlight /\ c.op = "register" /\ c.pc = "insert_user"
    /\ c.email \notin PendingEmails(c)
    /\ IF UniqueViolation({ row.email : row \in users }, c.email)
       THEN /\ calls' = calls (-) One(c)
            /\ ret' = Returned("register", "EmailTaken")
            /\ users' = RolledBack(users, {})
       ELSE /\ calls' = (calls (-) One(c)) (+) One([c EXCEPT !.pc = "insert_cred"])
            /\ ret' = NoReturn
            /\ UNCHANGED users
    /\ UNCHANGED <<items, probe, vault, clock, ticks, cred, rowLock, codeRows, sessions, nextSecret,
                   nextBatch, nextToken, failHist, confirmed>>

\* CreateUserWithCredentials when BeginTx or the INSERT INTO users fails with
\* an error that is no unique violation: "insert user"
RegisterInsertFails(c) ==
    /\ c \in InFlight /\ c.op = "register" /\ c.pc = "insert_user"
    /\ users' = RolledBack(users, {})
    /\ calls' = calls (-) One(c)
    /\ ret' = Returned("register", "InsertUserError")
    /\ UNCHANGED <<items, probe, vault, clock, ticks, cred, rowLock, codeRows, sessions, nextSecret,
                   nextBatch, nextToken, failHist, confirmed>>

\* CreateUserWithCredentials when the INSERT INTO auth_credentials fails,
\* after which the transaction is rolled back, or when the COMMIT fails:
\* "insert auth credential", "commit create user tx"
RegisterRollback(c) ==
    /\ c \in InFlight /\ c.op = "register" /\ c.pc = "insert_cred"
    /\ users' = RolledBack(users, {UserRow(c.user, c.email)})
    /\ calls' = calls (-) One(c)
    /\ ret' = Returned("register", "InsertCredentialError")
    /\ UNCHANGED <<items, probe, vault, clock, ticks, cred, rowLock, codeRows, sessions, nextSecret,
                   nextBatch, nextToken, failHist, confirmed>>

\* CreateUserWithCredentials: INSERT INTO auth_credentials; COMMIT, after
\* which both rows are there for other transactions; Register returns the id
RegisterCommit(c) ==
    /\ c \in InFlight /\ c.op = "register" /\ c.pc = "insert_cred"
    /\ cred' = [u \in DOMAIN cred \cup {c.user} |->
                    IF u = c.user THEN CredOf(c.email, c.pw, c.salt) ELSE cred[u]]
    /\ users' = users \cup {UserRow(c.user, c.email)}
    /\ calls' = calls (-) One(c)
    /\ ret' = [Returned("register", "Registered") EXCEPT !.user = c.user]
    /\ UNCHANGED <<items, probe, vault, clock, ticks, rowLock, codeRows, sessions, nextSecret,
                   nextBatch, nextToken, failHist, confirmed>>

(* ---- AuthService.Authenticate, Logout and the sweep -------------------- *)
\* the token strings a client can present: none, blanks, one never issued,
\* an issued one as it was handed out or with blanks around it
TokenInputs ==
    { <<>>, <<" ">>, NewOpaqueToken(0) }
        \cup { NewOpaqueToken(n) : n \in 1..(nextToken - 1) }
        \cup { <<" ">> \o NewOpaqueToken(n) \o <<" ">> : n \in 1..(nextToken - 1) }

\* Authenticate on the table rows at time now: the session it returns, if any
AuthenticateResult(rows, token, now) ==
    IF TrimOrEmpty(token) = <<>> THEN Returned("authenticate", "UnauthorizedSession")
    ELSE LET found == GetActiveSessionByTokenHash(rows, HashToken(token, Pepper), now)
         IN  IF found = {} THEN Returned("authenticate", "UnauthorizedSession")
             ELSE [Returned("authenticate", "Session") EXCEPT
                      !.user = (CHOOSE r \in found : TRUE).user]

Authenticate(token) ==
    /\ ret' = AuthenticateResult(Stored(sessions), token, clock)
    /\ UNCHANGED <<users, items, probe, vault, clock, ticks, cred, rowLock, codeRows, sessions, calls, nextSecret,
                   nextBatch, nextToken, failHist, confirmed>>

\* Logout on the table rows: what it returns
LogoutResult(rows, token) ==
    IF TrimOrEmpty(token) = <<>> THEN Returned("logout", "UnauthorizedSession")
    ELSE IF RevokeMatches(rows, HashToken(token, Pepper)) = {}
    THEN Returned("logout", "UnauthorizedSession")
    ELSE Returned("logout", "LoggedOut")

\* RevokeSessionByTokenHash: the rows after the UPDATE
RevokeSessionByTokenHash(rows, tokenHash, now) ==
    LET hit == RevokeMatches(rows, tokenHash)
    IN  (rows \ hit) \cup { [r EXCEPT !.revokedAt = SomeTime(now)] : r \in hit }

\* the UPDATE runs on the stored rows; the rows of the never-swept table
\* take the same UPDATE
Logout(token) ==
    /\ ret' = LogoutResult(Stored(sessions), token)
    /\ sessions' = IF TrimOrEmpty(token) = <<>> THEN sessions
                   ELSE RevokeSessionByTokenHash(sessions, HashToken(token, Pepper), clock)
    /\ UNCHANGED <<users, items, probe, vault, clock, ticks, cred, rowLock, codeRows, calls, nextSecret, nextBatch,
                   nextToken, failHist, confirmed>>

\* one round of the sweep goroutine: DeleteExpiredSessions
DeleteExpiredSessions ==
    /\ sessions' = { IF ~r.swept /\ SweepMatches(r, clock) THEN [r EXCEPT !.swept = TRUE] ELSE r :
                       r \in sessions }
    /\ ret' = Returned("sweep", "none")
    /\ UNCHANGED <<users, items, probe, vault, clock, ticks, cred, rowLock, codeRows, calls, nextSecret, nextBatch,
                   nextToken, failHist, confirmed>>

\* time passes while sessions are stored
SessionTick ==
    /\ ticks < MaxSessionTicks
    /\ sessions /= {}
    /\ \E d \in SessionTickSteps : clock' = clock + d
    /\ ticks' = ticks + 1
    /\ ret' = NoReturn
    /\ UNCHANGED <<users, items, probe, vault, cred, rowLock, codeRows, sessions, calls, nextSecret, nextBatch,
                   nextToken, failHist, confirmed>>

(* ---- AuthService.BeginTOTPSetup --------------------------------------- *)
\* NewTOTPSecret, EncryptTOTPSecret, s.repo.SetTOTPSecret: one UPDATE
BeginTOTPSetup(u) ==
    /\ BagCardinality(calls) < MaxInFlight
    /\ nextSecret <= MaxSecrets
    /\ ~rowLock[u]
    /\ cred' = [cred EXCEPT ![u] = [ClearedLockout(@) EXCEPT !.secret = nextSecret,
                                                             !.enabled = FALSE]]
    /\ nextSecret' = nextSecret + 1
    /\ failHist' = [failHist EXCEPT ![u] = NoHist]
    /\ ret' = Returned("setup", "Setup")
    /\ UNCHANGED <<users, items, probe, vault, clock, ticks, rowLock, codeRows, sessions, calls, nextBatch, nextToken,
                   confirmed>>

(* ---- AuthService.DisableTOTP ------------------------------------------ *)
\* DisableTOTP(userID) clears the secret, enabled and the lockout state,
\* whatever they are and with no code asked for: one UPDATE of the row
DisableTOTP(u) ==
    /\ BagCardinality(calls) < MaxInFlight
    /\ ~rowLock[u]
    /\ cred' = [cred EXCEPT ![u] = [ClearedLockout(@) EXCEPT !.secret = 0, !.enabled = FALSE]]
    /\ failHist' = [failHist EXCEPT ![u] = NoHist]
    /\ ret' = Returned("disable", "Disabled")
    /\ UNCHANGED <<users, items, probe, vault, clock, ticks, rowLock, codeRows, sessions, calls,
                   nextSecret, nextBatch, nextToken, confirmed>>

(* ---- AuthService.EnableTOTP ------------------------------------------- *)
\* EnableOutcome without the call of repo.EnableTOTP
EnableOutcomeSkipsEnable(state, code, now) ==
    IF isMFALocked(state.locked, now)
    THEN [pc |-> "done", res |-> "MFARateLimited"]
    ELSE IF state.secret = 0
    THEN [pc |-> "done", res |-> "MissingTOTPSecret"]
    ELSE IF ~VerifyTOTP(state.secret, code, now)
    THEN [pc |-> "fail_select", res |-> "none"]
    ELSE [pc |-> "reset", res |-> "none"]

\* EnableTOTP up to its first repository write; state is what GetTOTPState returned
EnableOutcome(state, code, now) ==
    IF isMFALocked(state.locked, now)
    THEN [pc |-> "done", res |-> "MFARateLimited"]
    ELSE IF state.secret = 0
    THEN [pc |-> "done", res |-> "MissingTOTPSecret"]
    ELSE IF state.enabled /\ VerifyTOTP(state.secret, code, now)
    THEN [pc |-> "reset", res |-> "none"]
    ELSE IF ~VerifyTOTP(state.secret, code, now)
    THEN [pc |-> "fail_select", res |-> "none"]
    ELSE [pc |-> "enable", res |-> "none"]

EnableStart(u, code) ==
    /\ BagCardinality(calls) < MaxInFlight
    /\ LET state == cred[u]
           out   == EnableOutcome(state, code, clock)
       IN  /\ IF out.pc = "done"
              THEN /\ ret' = Returned("enable", out.res)
                   /\ UNCHANGED calls
              ELSE /\ (nextBatch - 1) + CountOp("enable") < MaxBatches
                   /\ calls' = calls (+) One(NewCall("enable", out.pc, u,
                                                      IF out.pc = "fail_select" THEN clock ELSE 0,
                                                      NoRecovery))
                   /\ ret' = NoReturn
           /\ confirmed' = [confirmed EXCEPT ![u] =
                 IF out.pc \in {"reset", "enable"} THEN @ \cup {state.secret} ELSE @]
    /\ UNCHANGED <<users, items, probe, vault, clock, ticks, cred, rowLock, codeRows, sessions, nextSecret,
                   nextBatch, nextToken, failHist>>

(* ---- AuthService.VerifyTOTPForSession --------------------------------- *)
\* VerifyOutcome that does not look at state.Enabled
VerifyOutcomeIgnoresEnabled(state, code, now) ==
    IF isMFALocked(state.locked, now)
    THEN [pc |-> "done", res |-> "MFARateLimited"]
    ELSE IF state.secret = 0
    THEN [pc |-> "done", res |-> "MissingTOTPSecret"]
    ELSE IF ~VerifyTOTP(state.secret, code, now)
    THEN [pc |-> "fail_select", res |-> "none"]
    ELSE [pc |-> "reset", res |-> "none"]

\* VerifyTOTPForSession up to its first repository write; state is what GetTOTPState returned
VerifyOutcome(state, code, now) ==
    IF isMFALocked(state.locked, now)
    THEN [pc |-> "done", res |-> "MFARateLimited"]
    ELSE IF ~state.enabled \/ state.secret = 0
    THEN [pc |-> "done", res |-> "MissingTOTPSecret"]
    ELSE IF ~VerifyTOTP(state.secret, code, now)
    THEN [pc |-> "fail_select", res |-> "none"]
    ELSE [pc |-> "reset", res |-> "none"]

VerifyStart(u, code) ==
    /\ BagCardinality(calls) < MaxInFlight
    /\ LET out == VerifyOutcome(cred[u], code, clock)
       IN  IF out.pc = "done"
           THEN /\ ret' = Returned("verify", out.res)
                /\ UNCHANGED calls
           ELSE /\ calls' = calls (+) One(NewCall("verify", out.pc, u,
                                                   IF out.pc = "fail_select" THEN clock ELSE 0,
                                                   NoRecovery))
                /\ ret' = NoReturn
    /\ UNCHANGED <<users, items, probe, vault, clock, ticks, cred, rowLock, codeRows, sessions, nextSecret,
                   nextBatch, nextToken, failHist, confirmed>>

(* ---- AuthService.EnableTOTP, continued -------------------------------- *)
\* s.repo.EnableTOTP(ctx, userID): UPDATE ... SET mfa_totp_enabled = TRUE ... WHERE user_id = $1
EnableCommit(c) ==
    /\ c \in InFlight /\ c.pc = "enable"
    /\ ~rowLock[c.user]
    /\ cred' = [cred EXCEPT ![c.user] = [ClearedLockout(@) EXCEPT !.enabled = TRUE]]
    /\ failHist' = [failHist EXCEPT ![c.user] = NoHist]
    /\ calls' = (calls (-) One(c)) (+) One([c EXCEPT !.pc = "reset"])
    /\ ret' = NoReturn
    /\ UNCHANGED <<users, items, probe, vault, clock, ticks, rowLock, codeRows, sessions, nextSecret, nextBatch,
                   nextToken, confirmed>>

\* generateAndStoreRecoveryCodes: GenerateRecoveryCodes, then ReplaceRecoveryCodes
\* up to its DELETE, which removes the rows committed so far.  The deleted
\* rows stay locked until COMMIT, so to every other statement they are gone
\* from here on: a ConsumeRecoveryCode or a second DELETE that meets them
\* waits for the COMMIT and then finds them deleted.
ReplaceDelete(c) ==
    /\ c \in InFlight /\ c.pc = "replace_delete"
    /\ codeRows' = [codeRows EXCEPT ![c.user] = RowsAfterDelete(@)]
    /\ nextBatch' = nextBatch + 1
    /\ calls' = (calls (-) One(c)) (+) One([c EXCEPT !.pc = "replace_commit", !.batch = nextBatch])
    /\ ret' = NoReturn
    /\ UNCHANGED <<users, items, probe, vault, clock, ticks, cred, rowLock, sessions, nextSecret, nextToken,
                   failHist, confirmed>>

\* ReplaceRecoveryCodes: the INSERTs and the COMMIT that publishes them
ReplaceCommit(c) ==
    /\ c \in InFlight /\ c.pc = "replace_commit"
    /\ LET codes  == GenerateRecoveryCodes(c.batch, recoveryCodeCount)
           hashes == { HashRecoveryCode(x) : x \in codes }
       IN  codeRows' = [codeRows EXCEPT ![c.user] = @ \cup InsertedRows(hashes)]
    /\ calls' = calls (-) One(c)
    /\ ret' = Returned("enable", "Codes")
    /\ UNCHANGED <<users, items, probe, vault, clock, ticks, cred, rowLock, sessions, nextSecret, nextBatch,
                   nextToken, failHist, confirmed>>

(* ---- VaultService and VaultRepository ---------------------------------- *)
\* A string is the sequence of its parts, blanks or a word.  The user id is
\* that of the session the API layer authenticated, as it is or with blanks
\* around it, or an empty one; the item id is what the client sent.
CallerIDs == { <<"u1">>, <<" ", "u2", " ">>, <<" ">> }

\* util.NewUUID in CreateVaultItem: the n-th id drawn
NewItemID(n) == <<"item", HexChars[(n % 16) + 1]>>

ItemIDInputs ==
    { NewItemID(n) : n \in 0..MaxItems } \cup { <<" ">> \o NewItemID(1) \o <<" ">>, <<" ">> }

\* json.Valid on the metadata a client sends
JSONValid(metadata) == metadata \in { <<"{", "}">>, <<"null">> }

\* the encrypted fields of a request body
Payload(ciphertext, algoVersion, metadata) ==
    [ciphertext |-> ciphertext, nonce |-> <<1>>, wrappedDek |-> <<2>>, wrapNonce |-> <<3>>,
     algoVersion |-> algoVersion, metadata |-> metadata]

Payloads ==
    { Payload(<<7>>, <<"v1">>, <<>>), Payload(<<8>>, <<"v1">>, <<"{", "}">>),
      Payload(<<>>, <<"v1">>, <<>>), Payload(<<7>>, <<" ">>, <<>>),
      Payload(<<7>>, <<"v1">>, <<"{">>) }

\* what input.OwnerUserID holds when the request reaches CreateItem
InputOwners == { <<>>, <<"u1">>, <<"u2">> }

\* validateVaultPayload with no check at all
validateVaultPayloadLax(in) == TRUE

\* validateVaultPayload: whether it returns nil
validateVaultPayload(in) ==
    /\ Len(in.ciphertext) /= 0 /\ Len(in.nonce) /= 0
    /\ Len(in.wrappedDek) /= 0 /\ Len(in.wrapNonce) /= 0
    /\ TrimOrEmpty(in.algoVersion) /= <<>>
    /\ ~(Len(in.metadata) > 0 /\ ~JSONValid(in.metadata))

\* the rows the vault_items table holds
Kept(rows) == { r \in rows : ~r.deleted }

\* ItemsForOwner without "AND owner_user_id = $2"
ItemsForAnyone(rows, id, owner) == { r \in rows : r.id = id }

\* ... WHERE id = $1 AND owner_user_id = $2: the rows the statements of
\* GetVaultItemByIDForOwner, UpdateVaultItemForOwner and
\* DeleteVaultItemForOwner select
ItemsForOwner(rows, id, owner) == { r \in rows : r.id = id /\ r.owner = owner }

\* NOW() of the next statement that writes vault_items, counted in
\* statements: it is later than the NOW() of every statement before it
StatementTime(rows) ==
    IF rows = {} THEN 1
    ELSE 1 + (CHOOSE t \in { r.updatedAt : r \in rows } : \A r \in rows : r.updatedAt <= t)

\* ORDER BY updated_at DESC
OrderByUpdatedAtDesc(rows) ==
    [i \in 1..Cardinality(rows) |->
        CHOOSE r \in rows : Cardinality({ q \in rows : q.updatedAt > r.updatedAt }) = i - 1]

\* SELECT ... FROM vault_items WHERE owner_user_id = $1 ORDER BY updated_at DESC
ListVaultItemsByOwner(rows, owner) ==
    OrderByUpdatedAtDesc({ r \in rows : r.owner = owner })

\* INSERT INTO vault_items ... VALUES (..., NOW(), NOW()) RETURNING: the row
\* of a CreateVaultItemInput
CreateVaultItem(id, input, now) ==
    [id |-> id, owner |-> input.owner, data |-> input.data, updatedAt |-> now,
     deleted |-> FALSE]

\* what a vault call returns: the result, the user and item id it was made
\* for, and the rows in its body
VaultReturned(op, res, user, id, rows) ==
    [op |-> op, res |-> res, user |-> user, id |-> id, rows |-> rows]

\* CreateItem keeping the owner of the request body when it names one
CreateItemInputOwner(ownerUserID, input) ==
    IF input.owner /= <<>> THEN input ELSE [input EXCEPT !.owner = ownerUserID]

\* CreateItem: input.OwnerUserID = ownerUserID
CreateItemInput(ownerUserID, input) == [input EXCEPT !.owner = ownerUserID]

CreateItem(userID, owner, data) ==
    /\ LET ownerUserID == TrimOrEmpty(userID)
           row == CreateVaultItem(NewItemID(Cardinality(items) + 1),
                                  CreateItemInput(ownerUserID, [owner |-> owner, data |-> data]),
                                  StatementTime(items))
       IN  IF ownerUserID = <<>>
           THEN /\ ret' = VaultReturned("create", "UnauthorizedSession", ownerUserID, <<>>, {})
                /\ UNCHANGED items
           ELSE IF ~validateVaultPayload(data)
           THEN /\ ret' = VaultReturned("create", "InvalidVaultPayload", ownerUserID, <<>>, {})
                /\ UNCHANGED items
           ELSE /\ Cardinality(items) < MaxItems /\ StatementTime(items) <= MaxWrites
                /\ items' = items \cup {row}
                /\ ret' = VaultReturned("create", "Item", ownerUserID, row.id, {row})
    /\ UNCHANGED <<users, probe, vault, clock, ticks, cred, rowLock, codeRows, sessions, calls,
                   nextSecret, nextBatch, nextToken, failHist, confirmed>>

ListItems(userID) ==
    /\ LET ownerUserID == TrimOrEmpty(userID)
       IN  ret' = IF ownerUserID = <<>>
                  THEN VaultReturned("list", "UnauthorizedSession", ownerUserID, <<>>, <<>>)
                  ELSE VaultReturned("list", "Items", ownerUserID, <<>>,
                                     ListVaultItemsByOwner(Kept(items), ownerUserID))
    /\ UNCHANGED <<users, items, probe, vault, clock, ticks, cred, rowLock, codeRows, sessions,
                   calls, nextSecret, nextBatch, nextToken, failHist, confirmed>>

GetItem(userID, itemID) ==
    /\ LET ownerUserID == TrimOrEmpty(userID)
           trimmedItemID == TrimOrEmpty(itemID)
           found == ItemsForOwner(Kept(items), trimmedItemID, ownerUserID)
       IN  ret' = IF ownerUserID = <<>>
                  THEN VaultReturned("get", "UnauthorizedSession", ownerUserID, trimmedItemID, {})
                  ELSE IF trimmedItemID = <<>> \/ found = {}
                  THEN VaultReturned("get", "NotFound", ownerUserID, trimmedItemID, {})
                  ELSE VaultReturned("get", "Item", ownerUserID, trimmedItemID, found)
    /\ UNCHANGED <<users, items, probe, vault, clock, ticks, cred, rowLock, codeRows, sessions,
                   calls, nextSecret, nextBatch, nextToken, failHist, confirmed>>

UpdateItem(userID, itemID, data) ==
    /\ LET ownerUserID == TrimOrEmpty(userID)
           trimmedItemID == TrimOrEmpty(itemID)
           found == ItemsForOwner(Kept(items), trimmedItemID, ownerUserID)
           updated == { [r EXCEPT !.data = data, !.updatedAt = StatementTime(items)] :
                          r \in found }
       IN  IF ownerUserID = <<>>
           THEN /\ ret' = VaultReturned("update", "UnauthorizedSession", ownerUserID,
                                        trimmedItemID, {})
                /\ UNCHANGED items
           ELSE IF trimmedItemID = <<>>
           THEN /\ ret' = VaultReturned("update", "NotFound", ownerUserID, trimmedItemID, {})
                /\ UNCHANGED items
           ELSE IF ~validateVaultPayload(data)
           THEN /\ ret' = VaultReturned("update", "InvalidVaultPayload", ownerUserID,
                                        trimmedItemID, {})
                /\ UNCHANGED items
           ELSE IF found = {}
           THEN /\ ret' = VaultReturned("update", "NotFound", ownerUserID, trimmedItemID, {})
                /\ UNCHANGED items
           ELSE /\ StatementTime(items) <= MaxWrites
                /\ items' = (items \ found) \cup updated
                /\ ret' = VaultReturned("update", "Item", ownerUserID, trimmedItemID, updated)
    /\ UNCHANGED <<users, probe, vault, clock, ticks, cred, rowLock, codeRows, sessions, calls,
                   nextSecret, nextBatch, nextToken, failHist, confirmed>>

DeleteItem(userID, itemID) ==
    /\ LET ownerUserID == TrimOrEmpty(userID)
           trimmedItemID == TrimOrEmpty(itemID)
           found == ItemsForOwner(Kept(items), trimmedItemID, ownerUserID)
       IN  IF ownerUserID = <<>>
           THEN /\ ret' = VaultReturned("delete", "UnauthorizedSession", ownerUserID,
                                        trimmedItemID, {})
                /\ UNCHANGED items
           ELSE IF trimmedItemID = <<>> \/ found = {}
           THEN /\ ret' = VaultReturned("delete", "NotFound", ownerUserID, trimmedItemID, {})
                /\ UNCHANGED items
           ELSE /\ items' = (items \ found) \cup { [r EXCEPT !.deleted = TRUE] : r \in found }
                /\ ret' = VaultReturned("delete", "Deleted", ownerUserID, trimmedItemID, {})
    /\ UNCHANGED <<users, probe, vault, clock, ticks, cred, rowLock, codeRows, sessions, calls,
                   nextSecret, nextBatch, nextToken, failHist, confirmed>>

(* ---- the system ------------------------------------------------------- *)
CallStep(c) ==
    \/ LoginConsume(c)
    \/ FailSelect(c)
    \/ FailUpdate(c)
    \/ ResetFailures(c)
    \/ LoginSession(c)
    \/ EnableCommit(c)
    \/ ReplaceDelete(c)
    \/ ReplaceCommit(c)

Next ==
    \/ Tick
    \/ \E in \in FactorLoginInputs : LoginStart(in)
    \/ \E u \in MFAUsers : BeginTOTPSetup(u)
    \/ \E u \in MFAUsers : DisableTOTP(u)
    \/ \E u \in MFAUsers : \E code \in TOTPInputs : EnableStart(u, code)
    \/ \E c \in InFlight : CallStep(c)

Spec == Init /\ [][Next]_vars

\* Concurrent MFA attempts of the three operations that check a code: Login
\* with a wrong code, EnableTOTP and VerifyTOTPForSession with any code.
AttemptLoginInputs ==
    { [email |-> KnownEmail, password |-> RegisteredPassword, totp |-> f[1], recovery |-> f[2]] :
        f \in { <<GuessCode, NoRecovery>>, <<EmptyCode, <<0, 1>> >> } }

AttemptNext ==
    \/ Tick
    \/ \E in \in AttemptLoginInputs : LoginStart(in)
    \/ \E u \in MFAUsers : BeginTOTPSetup(u)
    \/ \E u \in MFAUsers : DisableTOTP(u)
    \/ \E u \in MFAUsers : \E code \in TOTPInputs : EnableStart(u, code)
    \/ \E u \in MFAUsers : \E code \in TOTPInputs : VerifyStart(u, code)
    \/ \E c \in InFlight : CallStep(c)

AttemptSpec == Init /\ [][AttemptNext]_vars

\* The same system with one call at a time and more time.
SerialNext ==
    \/ SerialTick
    \/ calls = EmptyBag /\ \E in \in LoginInputs : LoginStart(in)
    \/ calls = EmptyBag /\ \E u \in MFAUsers : BeginTOTPSetup(u)
    \/ calls = EmptyBag /\ \E u \in MFAUsers : DisableTOTP(u)
    \/ calls = EmptyBag /\ \E u \in MFAUsers : \E code \in TOTPInputs : EnableStart(u, code)
    \/ calls = EmptyBag /\ \E u \in MFAUsers : \E code \in TOTPInputs : VerifyStart(u, code)
    \/ \E c \in InFlight : CallStep(c)

SerialSpec == Init /\ [][SerialNext]_vars

\* One call at a time with the clock standing still, fed every combination
\* of request fields, malformed ones included.
RequestNext ==
    \/ calls = EmptyBag /\ \E in \in AllLoginInputs : LoginStart(in)
    \/ calls = EmptyBag /\ \E u \in MFAUsers : BeginTOTPSetup(u)
    \/ calls = EmptyBag /\ \E u \in MFAUsers : DisableTOTP(u)
    \/ calls = EmptyBag /\ \E u \in MFAUsers : \E code \in TOTPInputs \cup {ShortCode} : EnableStart(u, code)
    \/ \E c \in InFlight : CallStep(c)

RequestSpec == Init /\ [][RequestNext]_vars

\* Sessions: password logins of both accounts, concurrently, with
\* Authenticate, Logout and the sweep in between and time to let sessions expire.
SessionLoginInputs ==
    { [email |-> e, password |-> pw, totp |-> EmptyCode, recovery |-> NoRecovery] :
        e \in {KnownEmail, OtherEmail}, pw \in {RegisteredPassword, OtherPassword} }

SessionNext ==
    \/ SessionTick
    \/ \E in \in SessionLoginInputs : LoginStart(in)
    \/ \E c \in InFlight : LoginSession(c)
    \/ \E token \in TokenInputs : Authenticate(token)
    \/ \E token \in TokenInputs : Logout(token)
    \/ DeleteExpiredSessions

SessionSpec == Init /\ [][SessionNext]_vars

\* Registration: concurrent Register calls with e-mails that differ in case
\* and blanks only, a taken e-mail and a new one, and password logins to
\* the accounts that exist.
RegisterEmails == { KnownEmail, UnknownEmail, <<"B", " ">>, BlankEmail }
RegisterPasswords == { "pw1", "nodigit", "short", "accent" }

RegisterLoginInputs ==
    { [email |-> e, password |-> "pw1", totp |-> EmptyCode, recovery |-> NoRecovery] :
        e \in {KnownEmail, UnknownEmail} }

RegisterNext ==
    \/ \E email \in RegisterEmails : \E password \in RegisterPasswords :
           RegisterStart(email, password, OtherSalt)
    \/ \E c \in InFlight : RegisterInsertUser(c)
    \/ \E c \in InFlight : RegisterCommit(c)
    \/ \E in \in RegisterLoginInputs : LoginStart(in)
    \/ \E c \in InFlight : LoginSession(c)

RegisterSpec == Init /\ [][RegisterNext]_vars

\* Storage failures: one call at a time, with the statements of Login that
\* follow the recovery-code check failing or not.
FaultLoginInputs ==
    { [email |-> KnownEmail, password |-> RegisteredPassword, totp |-> EmptyCode, recovery |-> x] :
        x \in RecoveryInputs }

FaultNext ==
    \/ calls = EmptyBag /\ \E in \in FaultLoginInputs : LoginStart(in)
    \/ calls = EmptyBag /\ \E u \in MFAUsers : BeginTOTPSetup(u)
    \/ calls = EmptyBag /\ \E u \in MFAUsers : DisableTOTP(u)
    \/ calls = EmptyBag /\ \E u \in MFAUsers : \E code \in TOTPInputs : EnableStart(u, code)
    \/ \E c \in InFlight : CallStep(c)
    \/ \E c \in InFlight : LoginResetFails(c)
    \/ \E c \in InFlight : LoginSessionFails(c)

FaultSpec == Init /\ [][FaultNext]_vars

\* Registration with storage failures: any statement of
\* CreateUserWithCredentials may fail.
TxNext ==
    \/ \E email \in RegisterEmails : \E password \in RegisterPasswords :
           RegisterStart(email, password, OtherSalt)
    \/ \E c \in InFlight : RegisterInsertUser(c)
    \/ \E c \in InFlight : RegisterInsertFails(c)
    \/ \E c \in InFlight : RegisterRollback(c)
    \/ \E c \in InFlight : RegisterCommit(c)
    \/ \E in \in RegisterLoginInputs : LoginStart(in)
    \/ \E c \in InFlight : LoginSession(c)

TxSpec == Init /\ [][TxNext]_vars

\* The vault of two users: every call of VaultService with every user id,
\* item id and request body.
ItemNext ==
    \/ \E userID \in CallerIDs : \E owner \in InputOwners : \E data \in Payloads :
           CreateItem(userID, owner, data)
    \/ \E userID \in CallerIDs : ListItems(userID)
    \/ \E userID \in CallerIDs : \E itemID \in ItemIDInputs : GetItem(userID, itemID)
    \/ \E userID \in CallerIDs : \E itemID \in ItemIDInputs : \E data \in Payloads :
           UpdateItem(userID, itemID, data)
    \/ \E userID \in CallerIDs : \E itemID \in ItemIDInputs : DeleteItem(userID, itemID)

ItemSpec == Init /\ [][ItemNext]_vars

(* ---- web client: crypto/adapters.ts ------------------------------------ *)
\* Bytes are numbers 0..255 and a Uint8Array is a sequence of them.  The
\* cipher is the XChaCha20-Poly1305 the caller passes in, with keys of
\* KeyLength and nonces of NonceLength bytes (32 and 24 in
\* createDefaultXChaCha20Poly1305).  Its seal is modelled by a body, the
\* plaintext shifted by a pad that key and nonce determine, followed by a
\* tag that binds key, nonce, associated data and body: open succeeds on
\* what seal returned for the same key, nonce and associated data and on
\* nothing that differs from it in one byte.  Poly1305 lets nobody without
\* the key make a tag for other data; the keys, associated data and byte
\* changes drawn below are such that this tag does not either.
RECURSIVE Sum(_)
Sum(b) == IF b = <<>> THEN 0 ELSE b[1] + Sum(Tail(b))
Fold(b) == Sum(b) % 256
Filled(n, v) == [i \in 1..n |-> v]

Tag(key, nonce, aad, body) == <<Fold(key), Fold(nonce), Fold(aad), Fold(body)>>
TagLength == 4
Pad(key, nonce) == (Fold(key) + Fold(nonce)) % 256

\* cipher.seal(nonce, plaintext, associatedData)
Seal(key, nonce, plaintext, aad) ==
    LET body == [i \in 1..Len(plaintext) |-> (plaintext[i] + Pad(key, nonce)) % 256]
    IN  body \o Tag(key, nonce, aad, body)

\* open that returns the bytes under any tag
OpenUnchecked(key, nonce, ciphertext, aad) ==
    LET n == Len(ciphertext) - TagLength
        body == SubSeq(ciphertext, 1, n)
    IN  IF n >= 0
        THEN [ok |-> TRUE,
              bytes |-> [i \in 1..n |-> (body[i] + 256 - Pad(key, nonce)) % 256]]
        ELSE [ok |-> FALSE, bytes |-> <<>>]

\* cipher.open(nonce, ciphertext, associatedData): null (ok is FALSE) or the plaintext
Open(key, nonce, ciphertext, aad) ==
    LET n == Len(ciphertext) - TagLength
        body == SubSeq(ciphertext, 1, n)
    IN  IF n >= 0 /\ SubSeq(ciphertext, n + 1, Len(ciphertext)) = Tag(key, nonce, aad, body)
        THEN [ok |-> TRUE,
              bytes |-> [i \in 1..n |-> (body[i] + 256 - Pad(key, nonce)) % 256]]
        ELSE [ok |-> FALSE, bytes |-> <<>>]

\* associatedData?: Uint8Array, and input.associatedData ?? emptyAad
NoAad == [present |-> FALSE, bytes |-> <<>>]
Aad(bytes) == [present |-> TRUE, bytes |-> bytes]
AadBytes(aad) == IF aad.present THEN aad.bytes ELSE <<>>

\* utf8ToBytes(DEK_WRAP_AAD), the bytes of "pmv2:dek-wrap:v1"
DEK_WRAP_AAD == <<112, 109, 118, 50, 58, 100, 101, 107, 45, 119, 114, 97, 112, 58, 118, 49>>

\* XChaCha20Poly1305Aead.encrypt of createDefaultXChaCha20Poly1305
AeadEncrypt(key, nonce, plaintext, aad) ==
    IF Len(key) /= KeyLength THEN [err |-> "key must be keyLength bytes", bytes |-> <<>>]
    ELSE IF Len(nonce) /= NonceLength THEN [err |-> "nonce must be nonceLength bytes", bytes |-> <<>>]
    ELSE [err |-> "none", bytes |-> Seal(key, nonce, plaintext, AadBytes(aad))]

\* XChaCha20Poly1305Aead.decrypt of createDefaultXChaCha20Poly1305
AeadDecrypt(key, nonce, ciphertext, aad) ==
    IF Len(key) /= KeyLength THEN [err |-> "key must be keyLength bytes", bytes |-> <<>>]
    ELSE IF Len(nonce) /= NonceLength THEN [err |-> "nonce must be nonceLength bytes", bytes |-> <<>>]
    ELSE IF ~Open(key, nonce, ciphertext, AadBytes(aad)).ok
    THEN [err |-> "ciphertext authentication failed", bytes |-> <<>>]
    ELSE [err |-> "none", bytes |-> Open(key, nonce, ciphertext, AadBytes(aad)).bytes]

\* A string is the sequence of its UTF-16 code units.
IsHigh(u) == u >= 55296 /\ u <= 56319
IsLow(u) == u >= 56320 /\ u <= 57343
Replacement == 65533
ByteOrderMark == 65279

\* the UTF-8 bytes of a code point
EncodePoint(cp) ==
    IF cp < 128 THEN <<cp>>
    ELSE IF cp < 2048 THEN <<192 + (cp \div 64), 128 + (cp % 64)>>
    ELSE IF cp < 65536
    THEN <<224 + (cp \div 4096), 128 + ((cp \div 64) % 64), 128 + (cp % 64)>>
    ELSE <<240 + (cp \div 262144), 128 + ((cp \div 4096) % 64), 128 + ((cp \div 64) % 64),
           128 + (cp % 64)>>

\* encoder.encode(value): TextEncoder writes U+FFFD for a surrogate that has no partner
RECURSIVE utf8ToBytes(_)
utf8ToBytes(s) ==
    IF s = <<>> THEN <<>>
    ELSE IF IsHigh(s[1]) /\ Len(s) >= 2 /\ IsLow(s[2])
    THEN EncodePoint(65536 + (s[1] - 55296) * 1024 + (s[2] - 56320))
            \o utf8ToBytes(SubSeq(s, 3, Len(s)))
    ELSE IF IsHigh(s[1]) \/ IsLow(s[1]) THEN EncodePoint(Replacement) \o utf8ToBytes(Tail(s))
    ELSE EncodePoint(s[1]) \o utf8ToBytes(Tail(s))

\* The UTF-8 decoder of TextDecoder.  After a lead byte it needs one, two
\* or three more bytes; the first of them must lie within bounds that
\* depend on the lead byte (they keep out overlong forms, surrogates and
\* code points above U+10FFFF), the others within 128..191.
Needed(lead) ==
    IF lead >= 194 /\ lead <= 223 THEN 1
    ELSE IF lead >= 224 /\ lead <= 239 THEN 2
    ELSE IF lead >= 240 /\ lead <= 244 THEN 3
    ELSE 0
LowerBoundary(lead) == IF lead = 224 THEN 160 ELSE IF lead = 240 THEN 144 ELSE 128
UpperBoundary(lead) == IF lead = 237 THEN 159 ELSE IF lead = 244 THEN 143 ELSE 191
Within(b, i, lower, upper) == i <= Len(b) /\ b[i] >= lower /\ b[i] <= upper
Cont(b, i) == Within(b, i, 128, 191)

\* the bytes the decoder takes after the lead byte b[1] before it emits a
\* character or meets a byte, or the end, that does not continue it
Seen(b) ==
    IF ~Within(b, 2, LowerBoundary(b[1]), UpperBoundary(b[1])) THEN 0
    ELSE IF Needed(b[1]) = 1 \/ ~Cont(b, 3) THEN 1
    ELSE IF Needed(b[1]) = 2 \/ ~Cont(b, 4) THEN 2
    ELSE 3

\* the code point of a lead byte and the bytes that continue it
CodePoint(b) ==
    IF Needed(b[1]) = 1 THEN (b[1] - 192) * 64 + (b[2] - 128)
    ELSE IF Needed(b[1]) = 2 THEN (b[1] - 224) * 4096 + (b[2] - 128) * 64 + (b[3] - 128)
    ELSE (b[1] - 240) * 262144 + (b[2] - 128) * 4096 + (b[3] - 128) * 64 + (b[4] - 128)

\* the UTF-16 code units of a code point
CodeUnits(cp) ==
    IF cp < 65536 THEN <<cp>>
    ELSE <<55296 + ((cp - 65536) \div 1024), 56320 + ((cp - 65536) % 1024)>>

\* the code units of the UTF-8 bytes b: one U+FFFD for a byte that starts
\* no character, and one for a lead byte together with the bytes that
\* continue it when the character is cut short; the byte that cut it short
\* is read again
RECURSIVE DecodeUtf8(_)
DecodeUtf8(b) ==
    IF b = <<>> THEN <<>>
    ELSE IF b[1] < 128 THEN <<b[1]>> \o DecodeUtf8(Tail(b))
    ELSE IF Needed(b[1]) = 0 THEN <<Replacement>> \o DecodeUtf8(Tail(b))
    ELSE IF Seen(b) = Needed(b[1])
    THEN CodeUnits(CodePoint(b)) \o DecodeUtf8(SubSeq(b, Seen(b) + 2, Len(b)))
    ELSE <<Replacement>> \o DecodeUtf8(SubSeq(b, Seen(b) + 2, Len(b)))

\* decoder.decode(value): TextDecoder, made with no options, drops a leading byte order mark
bytesToUtf8(b) ==
    IF DecodeUtf8(b) /= <<>> /\ DecodeUtf8(b)[1] = ByteOrderMark
    THEN Tail(DecodeUtf8(b)) ELSE DecodeUtf8(b)

\* A base64 string is the sequence of its characters: the 64 of the
\* alphabet by their values 0..63, "=" (PadChar), any other (BadChar).
PadChar == 64
BadChar == 65

\* toBase64(input)
RECURSIVE toBase64(_)
toBase64(b) ==
    IF b = <<>> THEN <<>>
    ELSE IF Len(b) = 1 THEN <<b[1] \div 4, (b[1] % 4) * 16, PadChar, PadChar>>
    ELSE IF Len(b) = 2
    THEN <<b[1] \div 4, (b[1] % 4) * 16 + (b[2] \div 16), (b[2] % 16) * 4, PadChar>>
    ELSE <<b[1] \div 4, (b[1] % 4) * 16 + (b[2] \div 16), (b[2] % 16) * 4 + (b[3] \div 64),
           b[3] % 64>> \o toBase64(SubSeq(b, 4, Len(b)))

InAlphabet(s, from, to) == \A i \in from..to : s[i] < PadChar

\* isValidBase64 that accepts every string
isValidBase64Lax(input) == TRUE

\* isValidBase64(input): the length test and the regular expression
\* ^(?:[A-Za-z0-9+/]{4})*(?:[A-Za-z0-9+/]{2}==|[A-Za-z0-9+/]{3}=)?$
isValidBase64(input) ==
    LET n == Len(input)
    IN  IF n = 0 \/ n % 4 /= 0 THEN FALSE
        ELSE \/ InAlphabet(input, 1, n)
             \/ InAlphabet(input, 1, n - 2) /\ input[n - 1] = PadChar /\ input[n] = PadChar
             \/ InAlphabet(input, 1, n - 1) /\ input[n] = PadChar

\* what a base64 decoder reads: the characters of the alphabet before the first "="
RECURSIVE Sextets(_)
Sextets(input) ==
    IF input = <<>> \/ input[1] = PadChar THEN <<>>
    ELSE IF input[1] < PadChar THEN <<input[1]>> \o Sextets(Tail(input))
    ELSE Sextets(Tail(input))

\* Buffer.from(input, "base64") / atob(input): three bytes of four
\* characters, one of two, two of three, the bits left over dropped
RECURSIVE DecodeSextets(_)
DecodeSextets(c) ==
    IF Len(c) < 2 THEN <<>>
    ELSE IF Len(c) = 2 THEN <<c[1] * 4 + (c[2] \div 16)>>
    ELSE IF Len(c) = 3 THEN <<c[1] * 4 + (c[2] \div 16), (c[2] % 16) * 16 + (c[3] \div 4)>>
    ELSE <<c[1] * 4 + (c[2] \div 16), (c[2] % 16) * 16 + (c[3] \div 4), (c[3] % 4) * 64 + c[4]>>
            \o DecodeSextets(SubSeq(c, 5, Len(c)))

\* fromBase64(input)
fromBase64(input) ==
    IF ~isValidBase64(input) THEN [err |-> "invalid base64 input", bytes |-> <<>>]
    ELSE [err |-> "none", bytes |-> DecodeSextets(Sextets(input))]

\* decodeBase64Field(input, field, expectedLength), expectedLength 0 for undefined
decodeBase64Field(input, expectedLength) ==
    IF fromBase64(input).err /= "none" THEN fromBase64(input)
    ELSE IF expectedLength /= 0 /\ Len(fromBase64(input).bytes) /= expectedLength
    THEN [err |-> "field must decode to expectedLength bytes", bytes |-> <<>>]
    ELSE fromBase64(input)

\* EncryptedVaultItem
Version1 == "xchacha20poly1305-v1"
Item(version, nonce, ciphertext, wrappedDek, wrapNonce) ==
    [version |-> version, nonce |-> nonce, ciphertext |-> ciphertext,
     wrappedDek |-> wrappedDek, wrapNonce |-> wrapNonce]
NoItem == Item("none", <<>>, <<>>, <<>>, <<>>)
Fields == {"nonce", "ciphertext", "wrappedDek", "wrapNonce"}

\* Wiped that leaves the buffer as it is
WipedNot(buffer) == buffer

\* itemDek.fill(0)
Wiped(buffer) == Filled(Len(buffer), 0)

\* encryptVaultItem, with the three values randomBytes returns.  dek is the
\* itemDek buffer as the call leaves it, empty when it made none.
encryptVaultItem(plaintext, kek, aad, itemDek, nonce, wrapNonce) ==
    IF Len(kek) /= KeyLength
    THEN [err |-> "kek length does not match cipher key length", item |-> NoItem, dek |-> <<>>]
    ELSE LET ciphertext == AeadEncrypt(itemDek, nonce, utf8ToBytes(plaintext), aad)
             wrappedDek == AeadEncrypt(kek, wrapNonce, itemDek, Aad(DEK_WRAP_AAD))
         IN  IF ciphertext.err /= "none"
             THEN [err |-> ciphertext.err, item |-> NoItem, dek |-> Wiped(itemDek)]
             ELSE IF wrappedDek.err /= "none"
             THEN [err |-> wrappedDek.err, item |-> NoItem, dek |-> Wiped(itemDek)]
             ELSE [err |-> "none",
                   item |-> Item(Version1, toBase64(nonce), toBase64(ciphertext.bytes),
                                 toBase64(wrappedDek.bytes), toBase64(wrapNonce)),
                   dek |-> Wiped(itemDek)]

\* the outcome of decryptVaultItem: the error thrown ("none" when it
\* returns), the string returned, the itemDek buffer as the call leaves it
\* and the number of aead.decrypt calls made
Outcome(err, text, dek, opens) == [err |-> err, text |-> text, dek |-> dek, opens |-> opens]

\* decryptVaultItem
decryptVaultItem(payload, kek, aad) ==
    IF payload.version /= Version1 THEN Outcome("unsupported vault item version", <<>>, <<>>, 0)
    ELSE IF Len(kek) /= KeyLength
    THEN Outcome("kek length does not match cipher key length", <<>>, <<>>, 0)
    ELSE IF \E f \in Fields : payload[f] = <<>>
    THEN Outcome("payload is missing required encrypted fields", <<>>, <<>>, 0)
    ELSE LET wrapNonce == decodeBase64Field(payload.wrapNonce, NonceLength)
             wrappedDek == decodeBase64Field(payload.wrappedDek, 0)
             nonce == decodeBase64Field(payload.nonce, NonceLength)
             ciphertext == decodeBase64Field(payload.ciphertext, 0)
             itemDek == AeadDecrypt(kek, wrapNonce.bytes, wrappedDek.bytes, Aad(DEK_WRAP_AAD))
             plaintext == AeadDecrypt(itemDek.bytes, nonce.bytes, ciphertext.bytes, aad)
         IN  IF wrapNonce.err /= "none" THEN Outcome(wrapNonce.err, <<>>, <<>>, 0)
             ELSE IF wrappedDek.err /= "none" THEN Outcome(wrappedDek.err, <<>>, <<>>, 0)
             ELSE IF nonce.err /= "none" THEN Outcome(nonce.err, <<>>, <<>>, 0)
             ELSE IF ciphertext.err /= "none" THEN Outcome(ciphertext.err, <<>>, <<>>, 0)
             ELSE IF itemDek.err /= "none" THEN Outcome(itemDek.err, <<>>, <<>>, 1)
             ELSE IF Len(itemDek.bytes) /= KeyLength
             THEN Outcome("wrapped DEK has unexpected key length", <<>>, itemDek.bytes, 1)
             ELSE IF plaintext.err /= "none" THEN Outcome(plaintext.err, <<>>, itemDek.bytes, 2)
             ELSE Outcome("none", bytesToUtf8(plaintext.bytes), itemDek.bytes, 2)

\* The inputs of the client.  Plaintexts: the empty string, a, "a e-acute",
\* "euro a a", a byte order mark before and after an a, a surrogate pair, a
\* high surrogate alone and a low surrogate after an a.
Plaintexts ==
    { <<>>, <<97>>, <<97, 233>>, <<8364, 97, 97>>, <<ByteOrderMark, 97>>, <<97, ByteOrderMark>>,
      <<55357, 56832>>, <<55357>>, <<97, 56832>> }
KekA == Filled(KeyLength, 1)
KekB == Filled(KeyLength, 2)
KekShort == Filled(KeyLength - 1, 1)
Keks == {KekA, KekB, KekShort}
Aads == {NoAad, Aad(<<105>>), Aad(<<108>>)}
Randoms ==
    { [dek |-> Filled(KeyLength, 7), nonce |-> Filled(NonceLength, 11),
       wrapNonce |-> Filled(NonceLength, 13)],
      [dek |-> Filled(KeyLength, 200), nonce |-> Filled(NonceLength, 250),
       wrapNonce |-> Filled(NonceLength, 11)] }
TamperDeltas == {1, 128}
TamperChars == {1, PadChar, BadChar}
MalformedStrings ==
    { <<>>, <<1, 2, 3>>, <<1, 2, 3, BadChar>>, <<1, PadChar, PadChar, PadChar>>,
      <<1, 2, PadChar, 3>>, <<1, 2, 3, 4, 5, 6, PadChar>> }

\* the client holds a plaintext, a key and associated data and has made no call yet
VaultInit ==
    /\ InitServer
    /\ probe = NoProbe
    /\ vault \in [stage : {"new"}, plain : Plaintexts, kek : Keks, aad : Aads, item : {NoItem},
                   tamper : {"none"}, usedKek : {<<>>}, usedAad : {NoAad},
                   err : {"none"}, text : {<<>>}, dek : {<<>>}, opens : {0}]

\* encryptVaultItem({plaintext, kek, aead, associatedData})
EncryptItem(random) ==
    /\ vault.stage = "new"
    /\ LET r == encryptVaultItem(vault.plain, vault.kek, vault.aad, random.dek, random.nonce,
                                 random.wrapNonce)
       IN  vault' = [vault EXCEPT !.stage = IF r.err = "none" THEN "sealed" ELSE "failed",
                                  !.item = r.item, !.err = r.err, !.dek = r.dek]
    /\ UNCHANGED <<users, items, clock, ticks, cred, rowLock, codeRows, sessions, calls, ret,
                   nextSecret, nextBatch, nextToken, failHist, confirmed, probe>>

\* what happens to the item where it is stored: one byte of a field changes
TamperByte(f, i, d) ==
    /\ vault.stage = "sealed" /\ vault.tamper = "none"
    /\ i <= Len(fromBase64(vault.item[f]).bytes)
    /\ vault' = [vault EXCEPT !.tamper = "byte",
                     !.item[f] = toBase64([fromBase64(vault.item[f]).bytes
                                              EXCEPT ![i] = (@ + d) % 256])]
    /\ UNCHANGED <<users, items, clock, ticks, cred, rowLock, codeRows, sessions, calls, ret,
                   nextSecret, nextBatch, nextToken, failHist, confirmed, probe>>

\* one character of a field changes
TamperChar(f, i, ch) ==
    /\ vault.stage = "sealed" /\ vault.tamper = "none"
    /\ i <= Len(vault.item[f]) /\ vault.item[f][i] /= ch
    /\ vault' = [vault EXCEPT !.tamper = "char", !.item[f][i] = ch]
    /\ UNCHANGED <<users, items, clock, ticks, cred, rowLock, codeRows, sessions, calls, ret,
                   nextSecret, nextBatch, nextToken, failHist, confirmed, probe>>

\* a field is replaced by a string that is not base64
Malform(f, str) ==
    /\ vault.stage = "sealed" /\ vault.tamper = "none"
    /\ vault' = [vault EXCEPT !.tamper = "format", !.item[f] = str]
    /\ UNCHANGED <<users, items, clock, ticks, cred, rowLock, codeRows, sessions, calls, ret,
                   nextSecret, nextBatch, nextToken, failHist, confirmed, probe>>

\* the version tag is another one
ChangeVersion ==
    /\ vault.stage = "sealed" /\ vault.tamper = "none"
    /\ vault' = [vault EXCEPT !.tamper = "version", !.item.version = "xchacha20poly1305-v2"]
    /\ UNCHANGED <<users, items, clock, ticks, cred, rowLock, codeRows, sessions, calls, ret,
                   nextSecret, nextBatch, nextToken, failHist, confirmed, probe>>

\* decryptVaultItem({payload, kek, aead, associatedData})
DecryptItem(kek, aad) ==
    /\ vault.stage = "sealed"
    /\ LET r == decryptVaultItem(vault.item, kek, aad)
       IN  vault' = [vault EXCEPT !.stage = "opened", !.usedKek = kek, !.usedAad = aad,
                                  !.err = r.err, !.text = r.text, !.dek = r.dek,
                                  !.opens = r.opens]
    /\ UNCHANGED <<users, items, clock, ticks, cred, rowLock, codeRows, sessions, calls, ret,
                   nextSecret, nextBatch, nextToken, failHist, confirmed, probe>>

VaultNext ==
    \/ \E random \in Randoms : EncryptItem(random)
    \/ \E f \in Fields : \E i \in 1..(KeyLength + NonceLength + TagLength + 12) :
           \E d \in TamperDeltas : TamperByte(f, i, d)
    \/ \E f \in Fields : \E i \in 1..(2 * (KeyLength + NonceLength + TagLength + 12)) :
           \E ch \in TamperChars : TamperChar(f, i, ch)
    \/ \E f \in Fields : \E str \in MalformedStrings : Malform(f, str)
    \/ ChangeVersion
    \/ \E kek \in Keks : \E aad \in Aads : DecryptItem(kek, aad)

VaultSpec == VaultInit /\ [][VaultNext]_vars

(* ---- package util, one call at a time ---------------------------------- *)
\* the codes VerifyTOTP is called with: no code, a string of another length,
\* a six-digit string that is no HOTP value, and the HOTP values of two
\* secrets at every counter up to four periods past the last time
TOTPCodes ==
    {EmptyCode, GuessCode, ShortCode}
        \cup { OTP(s, c) : s \in 1..MaxSecrets, c \in 0..((MaxTime \div totpPeriod) + 4) }

\* VerifyTOTP(secret, code, now) for a time from MaxPast seconds before the
\* epoch to MaxTime seconds after it
TOTPInit ==
    /\ InitServer
    /\ vault = NoVault
    /\ probe \in [fn : {"VerifyTOTP"}, done : {FALSE}, secret : {1}, code : TOTPCodes,
                   now : (-MaxPast)..MaxTime, out : {"none"}]

ApplyVerifyTOTP ==
    /\ probe.fn = "VerifyTOTP" /\ ~probe.done
    /\ probe' = [probe EXCEPT !.done = TRUE,
                              !.out = IF VerifyTOTP(probe.secret, probe.code, probe.now)
                                      THEN "accept" ELSE "reject"]
    /\ UNCHANGED <<users, items, clock, ticks, cred, rowLock, codeRows, sessions, calls, ret,
                   nextSecret, nextBatch, nextToken, failHist, confirmed, vault>>

TOTPNext == ApplyVerifyTOTP

TOTPSpec == TOTPInit /\ [][TOTPNext]_vars

\* Password hashing.  The params column is JSONB NOT NULL: it holds a JSON
\* value, which need not be an object with the four fields.
StoredParams ==
    { MarshalArgon2Params(p) : p \in ValidParams }
        \cup { RawNull, RawValue, RawObject(<<>>),
               MarshalArgon2Params(ZeroParams),
               MarshalArgon2Params(Argon2Params(0, 3, 2, 32)),
               MarshalArgon2Params(Argon2Params(65536, 0, 2, 32)),
               MarshalArgon2Params(Argon2Params(65536, 3, 0, 32)),
               MarshalArgon2Params(Argon2Params(65536, 3, 2, 0)),
               MarshalArgon2Params(Argon2Params(65536, 3, MaxUint8 + 1, 32)),
               RawObject(<<Member("memory", 65536), Member("iterations", 3),
                           Member("parallelism", 2)>>),
               RawObject(<<Member("memory", 65536), Member("iterations", 3),
                           Member("parallelism", 2), Member("key_length", 32),
                           Member("key_length", 0)>>),
               RawObject(<<Member("memory", 0), Member("note", 1), Member("memory", 65536),
                           Member("iterations", 3), Member("parallelism", 2),
                           Member("key_length", 32)>>),
               RawObject(<<Member("Memory", 65536), Member("iterations", 3),
                           Member("parallelism", 2), Member("Key_Length", 32)>>),
               RawObject(<<Member("Memory", -1), Member("memory", 65536),
                           Member("iterations", 3), Member("parallelism", 2),
                           Member("key_length", 32)>>),
               RawObject(<<Member("memory", 65536), Member("MEMORY", 0),
                           Member("iterations", 3), Member("parallelism", 2),
                           Member("key_length", 32)>>),
               RawObject(<<Member("memory", 65536), Member("iterations", 3),
                           Member("parallelism", 2), Member("parallelism", MaxUint8 + 1),
                           Member("key_length", 32)>>) }

\* the bytes ParseArgon2Params can be called with
RawSamples == StoredParams \cup {RawEmpty, RawMalformed}

\* the account of u1 with params in its params column; its hash was computed
\* with the parameters the column holds when they are valid, with the
\* defaults before the column was damaged when they are not
StoredCred(raw) ==
    LET parsed == ParseArgon2Params(raw)
        used == IF parsed.err = "none" THEN parsed.params ELSE DefaultArgon2Params
    IN  [NewCred EXCEPT !.hash = HashPassword(RegisteredPassword, used, RegisteredSalt).hash,
                        !.params = raw]

KDFProbes ==
    [fn : {"VerifyPassword"}, done : {FALSE}, password : Passwords, attempt : Passwords,
     salt : Salts, params : ValidParams, out : {"none"}]
      \cup [fn : {"ParseArgon2Params"}, done : {FALSE}, raw : RawSamples,
            out : {[err |-> "none", params |-> ZeroParams]}]
      \cup [fn : {"MarshalArgon2Params"}, done : {FALSE}, params : ValidParams,
            out : {[err |-> "none", params |-> ZeroParams]}]

KDFInit ==
    /\ \E raw \in StoredParams : InitTables(StoredCred(raw))
    /\ vault = NoVault
    /\ probe \in KDFProbes

\* salt, hash := HashPassword(password, params); VerifyPassword(attempt, salt, hash, params)
ApplyVerifyPassword ==
    /\ probe.fn = "VerifyPassword" /\ ~probe.done
    /\ LET h == HashPassword(probe.password, probe.params, probe.salt)
       IN  probe' = [probe EXCEPT !.done = TRUE,
                         !.out = IF VerifyPassword(probe.attempt, h.salt, h.hash, probe.params)
                                 THEN "true" ELSE "false"]
    /\ UNCHANGED <<users, items, clock, ticks, cred, rowLock, codeRows, sessions, calls, ret,
                   nextSecret, nextBatch, nextToken, failHist, confirmed, vault>>

ApplyParseArgon2Params ==
    /\ probe.fn = "ParseArgon2Params" /\ ~probe.done
    /\ probe' = [probe EXCEPT !.done = TRUE, !.out = ParseArgon2Params(probe.raw)]
    /\ UNCHANGED <<users, items, clock, ticks, cred, rowLock, codeRows, sessions, calls, ret,
                   nextSecret, nextBatch, nextToken, failHist, confirmed, vault>>

\* ParseArgon2Params(MarshalArgon2Params(params))
ApplyMarshalArgon2Params ==
    /\ probe.fn = "MarshalArgon2Params" /\ ~probe.done
    /\ probe' = [probe EXCEPT !.done = TRUE,
                              !.out = ParseArgon2Params(MarshalArgon2Params(probe.params))]
    /\ UNCHANGED <<users, items, clock, ticks, cred, rowLock, codeRows, sessions, calls, ret,
                   nextSecret, nextBatch, nextToken, failHist, confirmed, vault>>

\* password logins to the account of u1
KDFLoginInputs ==
    { [email |-> KnownEmail, password |-> pw, totp |-> EmptyCode, recovery |-> NoRecovery] :
        pw \in Passwords }

KDFNext ==
    \/ ApplyVerifyPassword
    \/ ApplyParseArgon2Params
    \/ ApplyMarshalArgon2Params
    \/ \E in \in KDFLoginInputs : LoginStart(in)
    \/ \E c \in InFlight : LoginSession(c)

KDFSpec == KDFInit /\ [][KDFNext]_vars

(* ---- properties ------------------------------------------------------- *)
\* what a request says about itself, against the record Login reads
CorrectPassword(in) ==
    /\ NormalizeEmail(in.email) /= <<>> /\ in.password /= ""
    /\ LoginFound(in)
    /\ VerifyPassword(in.password, LoginRecord(in).salt, LoginRecord(in).hash,
                      ParseArgon2Params(LoginRecord(in).params).params)

OneFactor(in) == (in.totp = EmptyCode) /= (in.recovery = NoRecovery)
BothFactors(in) == in.totp /= EmptyCode /\ in.recovery /= NoRecovery
NoFactor(in) == in.totp = EmptyCode /\ in.recovery = NoRecovery

LoginCalls(pcs) == { c \in InFlight : c.op = "login" /\ c.pc \in pcs }

\* five failures in a row, each within 30 s of the first, have set
\* locked_until to the time of the fifth plus 5 minutes and the counter to 0
LockedAfterFiveFailures ==
    \A u \in Users :
        failHist[u].ok /\ failHist[u].n = totpMaxAttempts
            => /\ cred[u].locked = SomeTime(failHist[u].fifth + totpLockDuration)
               /\ cred[u].failed = 0

\* the requests that name the registered account with its password
PasswordLogins ==
    [email : {KnownEmail}, password : {RegisteredPassword},
     totp : TOTPInputs \cup {ShortCode}, recovery : RecoveryInputs]

\* a Login with the right password and one factor, made while the account
\* is locked, returns MFARateLimited and writes nothing
LockedAttemptRejected ==
    (\E u \in Users : cred[u].enabled /\ isMFALocked(cred[u].locked, clock))
        => \A in \in PasswordLogins :
            ( /\ CorrectPassword(in) /\ OneFactor(in)
              /\ LoginRecord(in).enabled
              /\ isMFALocked(LoginRecord(in).locked, clock)
              /\ LoginStart(in) )
                => /\ ret' = Returned("login", "MFARateLimited")
                   /\ UNCHANGED <<cred, codeRows, sessions, calls>>

\* once locked_until has passed, a Login with the right TOTP code goes on to
\* ResetTOTPFailures and the session, one with a recovery code to ConsumeRecoveryCode
ExpiredLockAdmits ==
    (\E u \in Users : /\ cred[u].enabled /\ cred[u].locked.valid
                      /\ ~isMFALocked(cred[u].locked, clock))
        => \A in \in PasswordLogins :
            ( /\ CorrectPassword(in) /\ OneFactor(in)
              /\ LoginRecord(in).enabled
              /\ LoginRecord(in).locked.valid
              /\ ~isMFALocked(LoginRecord(in).locked, clock)
              /\ LoginStart(in) )
                => IF in.recovery /= NoRecovery
                   THEN LoginCalls({"consume"}) = {} /\ LoginCalls({"consume"})' /= {}
                   ELSE IF VerifyTOTP(LoginRecord(in).secret, in.totp, clock)
                   THEN LoginCalls({"reset"}) = {} /\ LoginCalls({"reset"})' /= {}
                   ELSE LoginCalls({"fail_select"}) = {} /\ LoginCalls({"fail_select"})' /= {}

\* a Login that has verified its factor ends with a session and nothing else
AdmittedGetsSession ==
    \A c \in LoginCalls({"reset", "session"}) :
        calls' = calls (-) One(c)
            => /\ c.pc = "session"
               /\ ret' = Returned("login", "Session")
               /\ Cardinality(sessions') = Cardinality(sessions) + 1

\* the failure recorded after locked_until has passed is number 1 of a window
\* that starts at the time of that attempt
ExpiredLockCountsAfresh ==
    \A c \in LoginCalls({"fail_update"}) :
        ( /\ cred[c.user].locked.valid
          /\ ~isMFALocked(cred[c.user].locked, c.now)
          /\ FailUpdate(c) )
            => /\ cred'[c.user].failed = 1
               /\ cred'[c.user].window = SomeTime(c.now)
               /\ cred'[c.user].locked = NullTime
               /\ ret' = Returned("login", "InvalidMFA")

\* C1: with max_attempts = 5, window = 30 s and lock = 5 min, five failed
\* MFA attempts in a row inside one window leave the account locked until
\* 5 minutes after the fifth; an attempt made before then returns
\* MFARateLimited and changes neither failed_attempts nor locked_until; an
\* attempt made after locked_until is evaluated as if there were no lock: the
\* right factor leads to a session, a wrong one is failure 1 of a new window.
C1_LockoutTimeline ==
    /\ []LockedAfterFiveFailures
    /\ [][LockedAttemptRejected /\ ExpiredLockAdmits /\ AdmittedGetsSession
            /\ ExpiredLockCountsAfresh]_vars

\* a sixth attempt was turned away some time after the fifth failure locked the account
C1_Witness ==
    /\ cred["u1"].enabled
    /\ failHist["u1"].ok /\ failHist["u1"].n = totpMaxAttempts
    /\ failHist["u1"].fifth > failHist["u1"].first
    /\ clock > failHist["u1"].fifth
    /\ isMFALocked(cred["u1"].locked, clock)
    /\ ret = Returned("login", "MFARateLimited")

\* the stored rows of a recovery code
RowsOf(u, code) == { r \in codeRows[u] : r.hash = HashRecoveryCode(code) }

\* used_at of a row is set at most once, and no two calls in flight were
\* admitted by the same recovery code
ConsumedOnce ==
    /\ \A u \in Users : \A r \in codeRows[u] : r.used <= 1
    /\ \A c \in LoginCalls({"reset", "session"}) : c.rc /= NoRecovery => calls[c] = 1

\* ConsumeRecoveryCode admits the call exactly when it finds the code unused,
\* and then marks that one row; otherwise it leaves the rows as they are
ConsumeDecides ==
    \A c \in LoginCalls({"consume"}) :
        LoginConsume(c) =>
            LET unused == { r \in RowsOf(c.user, c.rc) : r.used = 0 }
            IN  IF unused /= {}
                THEN /\ LoginCalls({"reset"})' /= {}
                     /\ \A r \in unused : [r EXCEPT !.used = 1] \in codeRows'[c.user]
                     /\ \A r \in unused : r \notin codeRows'[c.user]
                ELSE /\ codeRows' = codeRows
                     /\ [c EXCEPT !.pc = "fail_select"] \in InFlight'

\* a Login whose recovery code was not consumed ends with InvalidMFA, or with
\* MFARateLimited when the account is or becomes locked; it gets no session
\* and marks no row
RefusedCodeFails ==
    \A c \in LoginCalls({"fail_select", "fail_update"}) :
        c.rc /= NoRecovery /\ calls' = calls (-) One(c)
            => /\ ret' \in { Returned("login", "InvalidMFA"), Returned("login", "MFARateLimited") }
               /\ sessions' = sessions
               /\ codeRows' = codeRows

\* C2 as amended: a recovery code is consumed at most once; of the Logins
\* that present it, concurrently or later, only the one whose
\* ConsumeRecoveryCode marked the row goes on to a session, and every other
\* one fails with InvalidMFA or, when its failure locks the account or finds
\* it locked, with MFARateLimited.
C2_RecoveryCodeOnce ==
    /\ []ConsumedOnce
    /\ [][ConsumeDecides /\ RefusedCodeFails /\ AdmittedGetsSession]_vars

\* two concurrent Logins presented the same code: one was admitted, the other refused
C2_Witness ==
    \E c1 \in LoginCalls({"reset", "session"}) :
        \E c2 \in LoginCalls({"fail_select", "fail_update"}) :
            /\ c1.rc /= NoRecovery /\ c2.rc = c1.rc
            /\ \E r \in RowsOf(c1.user, c1.rc) : r.used = 1

\* C2 as stated: every Login that presents a recovery code already consumed
\* fails with InvalidMFA.
C2_RefusedAlwaysInvalidMFA ==
    [][\A c \in LoginCalls({"fail_select", "fail_update"}) :
          ( /\ c.rc /= NoRecovery
            /\ \E r \in RowsOf(c.user, c.rc) : r.used = 1
            /\ calls' = calls (-) One(c) )
              => ret' = Returned("login", "InvalidMFA")]_vars

\* C3 as stated: while the account of a user with TOTP enabled is locked, no
\* Login that supplied a TOTP code or a recovery code marks a recovery code
\* used or clears the lock (the step that lets it go on to its session).
C3_LockedMeansNoAdmission ==
    [][\A c \in LoginCalls({"consume", "reset"}) :
          cred[c.user].enabled /\ isMFALocked(cred[c.user].locked, clock)
              => /\ LoginConsume(c) => codeRows' = codeRows
                 /\ ResetFailures(c) => cred'[c.user].locked = cred[c.user].locked]_vars

\* the lockout fields of a cleared account count the failures recorded since:
\* n < 5 failures inside one window leave failed_attempts = n and the window
\* opened by the first, the fifth leaves the account locked
FailuresCounted ==
    \A u \in Users :
        failHist[u].ok =>
            IF failHist[u].n = 0
            THEN cred[u].failed = 0 /\ ~cred[u].window.valid /\ ~cred[u].locked.valid
            ELSE IF failHist[u].n < totpMaxAttempts
            THEN /\ cred[u].failed = failHist[u].n
                 /\ cred[u].window = SomeTime(failHist[u].first)
                 /\ ~cred[u].locked.valid
            ELSE /\ cred[u].failed = 0
                 /\ cred[u].locked = SomeTime(failHist[u].fifth + totpLockDuration)

\* each RecordTOTPFailure commits what a call running alone would compute
\* from the row as the previous writer left it
SerialEffect ==
    \A c \in { x \in InFlight : x.pc = "fail_update" } :
        FailUpdate(c) =>
            LET nxt == NextFailureState(cred[c.user], c.now, totpMaxAttempts,
                                        totpAttemptWindow, totpLockDuration)
            IN  /\ cred'[c.user].failed = nxt.failed
                /\ cred'[c.user].window = nxt.window
                /\ cred'[c.user].locked = nxt.locked

\* C4: RecordTOTPFailure is atomic per user: concurrent calls take effect one
\* after the other, each on the row the previous one committed, so no
\* increment is lost and five failures inside one window, starting from
\* cleared lockout fields, always end with the account locked.
C4_FailureRecordingAtomic ==
    /\ []FailuresCounted
    /\ [][SerialEffect]_vars

\* the fifth failure has locked the account while another failing call,
\* started before the lock, is still waiting to record its own
C4_Witness ==
    /\ failHist["u1"].ok /\ failHist["u1"].n = totpMaxAttempts
    /\ isMFALocked(cred["u1"].locked, clock)
    /\ \E c \in InFlight : c.pc = "fail_select" /\ c.user = "u1"

\* what Login decides for a request in the current state
OutcomeNow(in) == LoginOutcome(in, LoginFound(in), LoginRecord(in), clock)

\* number of Login calls in flight at one of pcs
CountAt(pcs) == BagCardinality([c \in LoginCalls(pcs) |-> calls[c]])

\* Login lets a request past its checks only with a verified password and,
\* when the record it read has TOTP enabled, on to ResetTOTPFailures only with
\* a verified TOTP code and otherwise to ConsumeRecoveryCode; with TOTP
\* disabled the verified password is enough unless both a TOTP code and a
\* recovery code came with it
LoginChecksFactors ==
    \A in \in AllLoginInputs : \A pc \in {OutcomeNow(in).pc} : \A ok \in {CorrectPassword(in)} :
        LET rec == LoginRecord(in)
        IN  /\ pc \in {"session", "reset", "consume"} => ok
            /\ pc = "session" => ~rec.enabled
            /\ pc = "reset" => rec.enabled /\ VerifyTOTP(rec.secret, in.totp, clock)
            /\ pc = "consume" => rec.enabled /\ in.recovery /= NoRecovery
            /\ ok /\ ~rec.enabled /\ ~BothFactors(in) => pc = "session"

\* a Login call reaches the statement that creates its session only from
\* those checks: straight from them, through ResetTOTPFailures after a
\* verified TOTP code, or through a ConsumeRecoveryCode that marked a row
SessionProvenance ==
    /\ CountAt({"consume"})' > CountAt({"consume"})
        => \E in \in PasswordLogins : LoginStart(in) /\ OutcomeNow(in).pc = "consume"
    /\ CountAt({"reset"})' > CountAt({"reset"})
        => \/ \E in \in PasswordLogins : LoginStart(in) /\ OutcomeNow(in).pc = "reset"
           \/ \E c \in LoginCalls({"consume"}) :
                 /\ LoginConsume(c)
                 /\ \E r \in RowsOf(c.user, c.rc) :
                       r.used = 0 /\ [r EXCEPT !.used = 1] \in codeRows'[c.user]
    /\ CountAt({"session"})' > CountAt({"session"})
        => \/ \E in \in PasswordLogins : LoginStart(in) /\ OutcomeNow(in).pc = "session"
           \/ \E c \in LoginCalls({"reset"}) : ResetFailures(c)
    /\ sessions' /= sessions
        => \E c \in LoginCalls({"session"}) :
              LoginSession(c) /\ ret' = Returned("login", "Session")

\* What Login does: it returns a session only if the password verified
\* against the record it read and, when that record has TOTP enabled, the
\* TOTP code verified or this call's ConsumeRecoveryCode marked the code
\* used; when the record has TOTP disabled a verified password yields a
\* session unless the request carries both a TOTP code and a recovery code.
SessionNeedsFactors ==
    /\ []LoginChecksFactors
    /\ [][SessionProvenance]_vars

\* a Login of a user with TOTP enabled has just been given a session after
\* its recovery code was marked used
SessionByRecoveryCode ==
    /\ ret = Returned("login", "Session")
    /\ cred["u1"].enabled
    /\ \E r \in codeRows["u1"] : r.used = 1

\* C5 as stated, second half (Login is to skip MFA when TOTP is
\* disabled): whenever the record has TOTP disabled, a
\* Login with the verified password goes on to create a session.
C5_PasswordAloneSuffices ==
    [][\A in \in PasswordLogins :
          CorrectPassword(in) /\ ~LoginRecord(in).enabled /\ LoginStart(in)
              => CountAt({"session"})' > CountAt({"session"})]_vars

\* C6 as stated: whenever TOTP is enabled, EnableTOTP has verified a code
\* against the secret that is stored now.
C6_EnabledSecretWasVerified ==
    \A u \in Users : cred[u].enabled => cred[u].secret \in confirmed[u]

\* the hashes of the codes of batch b
BatchHashes(b) == { HashRecoveryCode(x) : x \in GenerateRecoveryCodes(b, recoveryCodeCount) }

\* C7 as stated: outside a ReplaceRecoveryCodes transaction the stored
\* recovery codes of a user are none, before the first batch, or exactly the
\* 10 hashes of one batch that an EnableTOTP call returned.
C7_OneBatchStored ==
    \A u \in Users :
        (\A c \in InFlight : c.pc /= "replace_commit")
            => \/ codeRows[u] = {}
               \/ \E b \in 1..(nextBatch - 1) : { r.hash : r \in codeRows[u] } = BatchHashes(b)

\* everything a Login that is turned away at its checks must leave alone
LoginFrame == <<clock, cred, rowLock, codeRows, sessions, calls, nextSecret, nextBatch, nextToken>>

\* a request is refused at the credentials, with a result that depends on the
\* shape of the request alone, whether the e-mail is unknown or the password wrong
SameRefusal ==
    \A in \in AllLoginInputs :
        ~CorrectPassword(in)
            => OutcomeNow(in) =
                  [pc |-> "done",
                   res |-> IF NormalizeEmail(in.email) /= <<>> /\ in.password /= "" /\ BothFactors(in)
                           THEN "InvalidMFAInput" ELSE "InvalidCredentials"]

\* a Login that returns InvalidCredentials or InvalidMFAInput has written nothing
RefusalWritesNothing ==
    ret' \in { Returned("login", "InvalidCredentials"), Returned("login", "InvalidMFAInput") }
        => UNCHANGED LoginFrame

\* What Login does: for an e-mail with no credential record and for an
\* existing e-mail with a wrong password it gives the same result, which
\* is InvalidCredentials unless the request has a non-blank e-mail, a
\* non-empty password and both a TOTP code and a recovery code, when it is
\* InvalidMFAInput for both; in every case no session is created and no
\* stored state changes.
NoEnumeration ==
    /\ []SameRefusal
    /\ [][RefusalWritesNothing]_vars

\* a Login was refused with InvalidCredentials for an account that has TOTP
\* enabled and failures on record
RefusedWithFailuresOnRecord ==
    /\ ret = Returned("login", "InvalidCredentials")
    /\ cred["u1"].enabled /\ cred["u1"].failed > 0

\* C8 as stated: a Login for an unknown e-mail or with a wrong password
\* returns InvalidCredentials whatever the other request fields are.
C8_AlwaysInvalidCredentials ==
    [][\A in \in AllLoginInputs :
          ~CorrectPassword(in) /\ LoginStart(in)
              => ret' = Returned("login", "InvalidCredentials")]_vars

\* InvalidMFAInput is the answer to exactly the requests with a non-blank
\* e-mail, a non-empty password and both factors, whoever they name
BothFactorsRefused ==
    \A in \in AllLoginInputs :
        OutcomeNow(in).res = "InvalidMFAInput"
            <=> NormalizeEmail(in.email) /= <<>> /\ in.password /= "" /\ BothFactors(in)

\* What Login does: the both-factors check is made on the request alone,
\* before the account is looked up: a request with a non-blank e-mail, a
\* non-empty password and both a TOTP code and a recovery code returns
\* InvalidMFAInput whether or not the e-mail is known, the password right
\* or TOTP enabled, no other request does, and the call writes nothing.
BothFactorsCheckedFirst ==
    /\ []BothFactorsRefused
    /\ [][ret' = Returned("login", "InvalidMFAInput") => UNCHANGED LoginFrame]_vars

\* a request with both factors was refused for an account with TOTP enabled
BothFactorsRefusedWhenEnabled ==
    /\ ret = Returned("login", "InvalidMFAInput")
    /\ cred["u1"].enabled

\* C9 as stated: the both-factors check is part of the MFA step:
\* InvalidMFAInput is returned only for a user with TOTP enabled.
C9_OnlyWhenTOTPEnabled ==
    [][ret' = Returned("login", "InvalidMFAInput") => \E u \in Users : cred[u].enabled]_vars

\* the request with the right password and no factor
NoFactorLogin ==
    [email |-> KnownEmail, password |-> RegisteredPassword, totp |-> EmptyCode,
     recovery |-> NoRecovery]

\* with TOTP enabled and the account not locked, the right password without
\* a factor is answered MFARequired
PromptsForFactor ==
    \A in \in [email : RawEmails, password : Passwords, totp : {EmptyCode}, recovery : {NoRecovery}] :
        ( /\ CorrectPassword(in) /\ NoFactor(in)
          /\ LoginRecord(in).enabled
          /\ ~isMFALocked(LoginRecord(in).locked, clock) )
            => OutcomeNow(in) = [pc |-> "done", res |-> "MFARequired"]

\* and that Login creates no session and leaves the lockout fields and the
\* recovery codes as they are
PromptWritesNothing ==
    /\ ( /\ cred["u1"].enabled /\ ~isMFALocked(cred["u1"].locked, clock)
         /\ LoginStart(NoFactorLogin) )
            => ret' = Returned("login", "MFARequired") /\ UNCHANGED LoginFrame
    /\ ret' = Returned("login", "MFARequired") => UNCHANGED LoginFrame

\* C10: for a user with TOTP enabled whose account is not locked, Login
\* with the right password and neither a TOTP code nor a recovery code
\* returns MFARequired, creates no session and leaves failed_attempts,
\* window_started_at, locked_until and the recovery codes unchanged.
C10_MFARequiredFrame ==
    /\ []PromptsForFactor
    /\ [][PromptWritesNothing]_vars

\* MFARequired was returned for an account with failures on record, an
\* expired lock or none, and stored recovery codes
C10_Witness ==
    /\ ret = Returned("login", "MFARequired")
    /\ cred["u1"].enabled /\ cred["u1"].failed > 0
    /\ codeRows["u1"] /= {}

\* the state of u1 that EnableTOTP and VerifyTOTPForSession read, locked now
LockedNow(u) == isMFALocked(cred[u].locked, clock)

\* what the three operations decide while the account is locked: Login with
\* the right password answers MFARateLimited when TOTP is enabled and the
\* request has one factor or none, InvalidMFAInput when it has both, and goes
\* on to its session when TOTP is not enabled; EnableTOTP and
\* VerifyTOTPForSession answer MFARateLimited whatever the code
LockedOutcome ==
    \A u \in MFAUsers :
        LockedNow(u) =>
            /\ \A in \in PasswordLogins :
                  CorrectPassword(in) /\ LoginUser(in) = u
                      => OutcomeNow(in) =
                            IF BothFactors(in) THEN [pc |-> "done", res |-> "InvalidMFAInput"]
                            ELSE IF cred[u].enabled THEN [pc |-> "done", res |-> "MFARateLimited"]
                            ELSE [pc |-> "session", res |-> "none"]
            /\ \A code \in TOTPInputs \cup {ShortCode} :
                  /\ EnableOutcome(cred[u], code, clock) = [pc |-> "done", res |-> "MFARateLimited"]
                  /\ VerifyOutcome(cred[u], code, clock) = [pc |-> "done", res |-> "MFARateLimited"]

\* a call that finds the account locked records no failure, consumes no
\* recovery code and leaves the credential row as it is
LockedFrame ==
    LockedNow("u1") /\ calls = EmptyBag /\ ret'.op \in {"login", "enable", "verify"}
        => /\ UNCHANGED <<cred, rowLock, codeRows, failHist>>
           /\ \A c \in InFlight' : c.op = "login" /\ c.pc = "session"
           /\ ret'.op \in {"enable", "verify"} => ret'.res = "MFARateLimited"
           /\ \A in \in LoginInputs :
                 CorrectPassword(in) /\ LoginUser(in) = "u1" /\ cred["u1"].enabled
                   /\ ~BothFactors(in) /\ LoginStart(in)
                     => ret' = Returned("login", "MFARateLimited") /\ UNCHANGED LoginFrame

\* C11 as amended: while the account is locked and TOTP is enabled, Login
\* with a correct password returns MFARateLimited whether it carries one MFA
\* factor or none; a request with both a TOTP code and a recovery code
\* returns InvalidMFAInput, and with TOTP not enabled Login goes on to a
\* session; in every case no failure is recorded, no recovery code consumed
\* and failed_attempts, window_started_at and locked_until stay as they are.
\* EnableTOTP and VerifyTOTPForSession return MFARateLimited without
\* changing state.
C11_LockedFailsFast ==
    /\ []LockedOutcome
    /\ [][LockedFrame]_vars

\* VerifyTOTPForSession was turned away from a locked account that has TOTP
\* enabled and recovery codes stored
C11_Witness ==
    /\ ret = Returned("verify", "MFARateLimited")
    /\ LockedNow("u1") /\ cred["u1"].enabled
    /\ codeRows["u1"] /= {}

\* C11 as stated: while the account is locked, every Login with a correct
\* password returns MFARateLimited, whatever factors it carries.
C11_LockedLoginAlwaysRateLimited ==
    [][\A in \in LoginInputs :
          LockedNow("u1") /\ CorrectPassword(in) /\ LoginUser(in) = "u1" /\ LoginStart(in)
              => ret' = Returned("login", "MFARateLimited")]_vars

\* the calls of any operation that are inside RecordTOTPFailure
FailingCalls == { c \in InFlight : c.pc \in {"fail_select", "fail_update"} }

\* a code that does not verify sends each operation to RecordTOTPFailure,
\* unless the operation returns before it checks the code
FailedCheckIsRecorded ==
    \A u \in MFAUsers : \A code \in TOTPInputs :
        ~LockedNow(u) /\ cred[u].secret /= 0 /\ ~VerifyTOTP(cred[u].secret, code, clock)
            => /\ EnableOutcome(cred[u], code, clock).pc = "fail_select"
               /\ cred[u].enabled => VerifyOutcome(cred[u], code, clock).pc = "fail_select"
               /\ cred[u].enabled /\ code /= EmptyCode
                    => CheckMFA([totp |-> code, recovery |-> NoRecovery], cred[u], clock).pc
                          = "fail_select"

\* RecordTOTPFailure either finds the account locked, writes nothing and
\* the check answers MFARateLimited, or records one failure, and then the
\* answer is MFARateLimited exactly when this failure set locked_until
FailureAnswer ==
    \A c \in FailingCalls :
        calls' = calls (-) One(c) =>
            IF c.pc = "fail_select"
            THEN /\ isMFALocked(cred[c.user].locked, c.now)
                 /\ cred' = cred
                 /\ ret' = Returned(c.op, "MFARateLimited")
            ELSE LET nxt == NextFailureState(cred[c.user], c.now, totpMaxAttempts,
                                             totpAttemptWindow, totpLockDuration)
                 IN  /\ cred'[c.user] = [cred[c.user] EXCEPT !.failed = nxt.failed,
                                             !.window = nxt.window, !.locked = nxt.locked]
                     /\ nxt.locked.valid <=> nxt.failed = 0
                     /\ ret' = Returned(c.op, IF nxt.locked.valid THEN "MFARateLimited"
                                              ELSE "InvalidMFA")

\* counted from cleared lockout fields and inside one window, failures 1 to 4
\* are answered InvalidMFA and failure 5 MFARateLimited
FifthFailureLocks ==
    \A c \in FailingCalls :
        ( /\ calls' = calls (-) One(c)
          /\ failHist[c.user].ok /\ failHist'[c.user].ok
          /\ failHist'[c.user].n = failHist[c.user].n + 1 )
            => ret' = Returned(c.op, IF failHist'[c.user].n = totpMaxAttempts
                                     THEN "MFARateLimited" ELSE "InvalidMFA")

\* C12 as amended: a failed MFA check in Login, EnableTOTP or
\* VerifyTOTPForSession calls RecordTOTPFailure once.  When that call finds
\* the account already locked by a concurrent failure it records nothing and
\* the check returns MFARateLimited; otherwise it records exactly one failure
\* and the check returns MFARateLimited if and only if that failure set a
\* lock, InvalidMFA otherwise: failures 1 to 4 of a window return InvalidMFA
\* and the 5th returns MFARateLimited.
C12_FailureAnswers ==
    /\ []FailedCheckIsRecorded
    /\ [][FailureAnswer /\ FifthFailureLocks]_vars

\* the fourth failure of a window was answered InvalidMFA while another
\* failed check is about to record the fifth
C12_Witness ==
    /\ ret.res = "InvalidMFA" /\ ret.op \in {"enable", "verify"}
    /\ failHist["u1"].ok /\ failHist["u1"].n = totpMaxAttempts - 1
    /\ cred["u1"].failed = totpMaxAttempts - 1
    /\ \E c \in FailingCalls : c.op = "verify"

\* C12 as stated: a failed MFA check returns MFARateLimited only if the
\* failure it recorded set the lock.
C12_RateLimitedOnlyByOwnFailure ==
    [][\A c \in FailingCalls :
          calls' = calls (-) One(c) /\ ret' = Returned(c.op, "MFARateLimited")
              => cred'[c.user].locked /= cred[c.user].locked]_vars

\* the lockout fields of a user are clear
LockoutClear(u) == cred[u].failed = 0 /\ ~cred[u].window.valid /\ ~cred[u].locked.valid

\* the responses that follow a successful MFA check
MFASuccess ==
    \/ ret = Returned("verify", "Verified")
    \/ ret = Returned("enable", "Codes")
    \/ ret = Returned("login", "Session") /\ cred["u1"].enabled

\* when a call returns after a successful MFA check the lockout fields are clear
SuccessClears == MFASuccess => LockoutClear("u1")

\* ResetTOTPFailures clears the three lockout fields, and the calls that
\* passed their MFA check are the ones that run it
ResetClears ==
    /\ \A c \in { x \in InFlight : x.pc = "reset" } :
          ResetFailures(c) => LockoutClear(c.user)'
    /\ ret' \in { Returned("verify", "Verified"), Returned("enable", "Codes") }
          => \E c \in InFlight : c.pc \in {"reset", "replace_commit"} /\ calls' = calls (-) One(c)

\* a failure adds one to failed_attempts at most, and locked_until is set
\* only by the failure that finds max_attempts - 1 on record
LockNeedsFullCount ==
    \A u \in Users :
        /\ cred'[u].failed <= cred[u].failed + 1
        /\ cred'[u].locked.valid /\ cred'[u].locked /= cred[u].locked
              => cred[u].failed = totpMaxAttempts - 1

\* C13: after a successful MFA check (Login with a correct TOTP code or an
\* unused recovery code, EnableTOTP, VerifyTOTPForSession) failed_attempts is
\* 0 and window_started_at and locked_until are unset, so that the next
\* max_attempts - 1 failures do not lock the account.
C13_SuccessResets ==
    /\ []SuccessClears
    /\ [][ResetClears /\ LockNeedsFullCount]_vars

\* VerifyTOTPForSession succeeded some time after the clock started
C13_Witness ==
    /\ ret = Returned("verify", "Verified")
    /\ LockoutClear("u1")
    /\ clock > 0

\* the stored sessions a presented token names that are neither revoked nor expired
ActiveFor(token) ==
    { r \in sessions : /\ ~r.swept
                       /\ r.tokenHash = HashToken(token, Pepper)
                       /\ ~r.revokedAt.valid
                       /\ r.expiresAt > clock }

SessionOf(u) == [Returned("authenticate", "Session") EXCEPT !.user = u]

\* Authenticate answers with a session exactly for the tokens that name an
\* active stored session, and with UnauthorizedSession for every other one:
\* the empty token, blanks, a token never issued, an issued token with blanks
\* around it, an expired or revoked one
AuthenticateDecides ==
    \A token \in TokenInputs :
        LET res == AuthenticateResult(Stored(sessions), token, clock)
        IN  /\ res.res = "Session" <=> ActiveFor(token) /= {}
            /\ res.res /= "Session" => res = Returned("authenticate", "UnauthorizedSession")
            /\ \A r \in ActiveFor(token) : res = SessionOf(r.user)
            /\ token \notin { NewOpaqueToken(n) : n \in 1..(nextToken - 1) }
                  => res = Returned("authenticate", "UnauthorizedSession")

\* Login stores the hash of the token it hands out under the user it
\* authenticated, and no later step changes whose session a row is
IssuedToItsUser ==
    /\ \A c \in LoginCalls({"session"}) :
          LoginSession(c) =>
              sessions' = sessions \cup
                  { [tokenHash |-> HashToken(NewOpaqueToken(nextToken), Pepper), user |-> c.user,
                     expiresAt |-> clock + sessionTTL, revokedAt |-> NullTime, swept |-> FALSE] }
    /\ \A r \in sessions : \E r2 \in sessions' :
          r2.tokenHash = r.tokenHash /\ r2.user = r.user /\ r2.expiresAt = r.expiresAt
    /\ \A r1, r2 \in sessions' : r1.tokenHash = r2.tokenHash => r1 = r2

\* Authenticate writes nothing, and the session it returns is that of an
\* active stored row
AuthenticateReads ==
    ret'.op = "authenticate"
        => /\ UNCHANGED <<clock, cred, codeRows, sessions, calls, nextToken>>
           /\ ret'.res = "Session"
                => \E r \in Stored(sessions) :
                      ~r.revokedAt.valid /\ r.expiresAt > clock /\ r.user = ret'.user

\* C14: Authenticate(token) returns a session if and only if a stored
\* session has token_hash = Hash(token, pepper), revoked_at unset and
\* expires_at > now, and that session carries the user_id of the Login that
\* issued the token; for an empty, unknown, expired or revoked token it
\* returns the one UnauthorizedSession error.
C14_AuthenticateActiveOnly ==
    /\ []AuthenticateDecides
    /\ [][IssuedToItsUser /\ AuthenticateReads]_vars

\* the second account was authenticated by its token while a session of the
\* first account is stored and has expired
C14_Witness ==
    /\ ret = SessionOf("u2")
    /\ \E r \in Stored(sessions) : r.user = "u1" /\ r.expiresAt <= clock

\* the rows, deleted ones included, whose revoked_at is set
RevokedRows == { r \in sessions : r.revokedAt.valid }

\* a token whose session was revoked is refused by Authenticate and by
\* Logout, and so is the Logout of a token that was never issued
RevokedStaysOut ==
    \A token \in TokenInputs :
        /\ (\E r \in RevokedRows : r.tokenHash = HashToken(token, Pepper))
              => /\ AuthenticateResult(Stored(sessions), token, clock)
                       = Returned("authenticate", "UnauthorizedSession")
                 /\ LogoutResult(Stored(sessions), token)
                       = Returned("logout", "UnauthorizedSession")
        /\ token \notin { NewOpaqueToken(n) : n \in 1..(nextToken - 1) }
              => LogoutResult(Stored(sessions), token) = Returned("logout", "UnauthorizedSession")

\* a Logout that succeeds has set revoked_at of a stored row that had none
LogoutRevokes ==
    ret' = Returned("logout", "LoggedOut")
        => \E r \in Stored(sessions) :
              /\ ~r.revokedAt.valid
              /\ [r EXCEPT !.revokedAt = SomeTime(clock)] \in sessions'
              /\ r \notin sessions'

\* revoked_at, once set, keeps its value
RevokedAtKept ==
    \A r \in RevokedRows :
        \E r2 \in sessions' : r2.tokenHash = r.tokenHash /\ r2.revokedAt = r.revokedAt

\* C15: revocation is permanent and repeat-safe: once Logout(token) has
\* succeeded, every later Authenticate(token) and Logout(token) returns
\* UnauthorizedSession, whatever logins, logouts and sweeps run in between;
\* Logout of a token never issued returns UnauthorizedSession; revoked_at,
\* once set, is never cleared or changed.
C15_RevocationPermanent ==
    /\ []RevokedStaysOut
    /\ [][LogoutRevokes /\ RevokedAtKept]_vars

\* a Logout was refused some time after the session it names was revoked
\* and then swept
C15_Witness ==
    /\ ret = Returned("logout", "UnauthorizedSession")
    /\ nextToken = 2
    /\ \E r \in sessions : r.revokedAt.valid /\ r.swept /\ clock > r.revokedAt.time

\* a stored row that Authenticate would accept
IsActive(r) == ~r.swept /\ ~r.revokedAt.valid /\ r.expiresAt > clock

\* for every token Authenticate answers from the stored rows what it would
\* answer from the table that was never swept
SweepInvisible ==
    \A token \in TokenInputs :
        AuthenticateResult(Stored(sessions), token, clock)
            = AuthenticateResult(sessions, token, clock)

\* DeleteExpiredSessions deletes no active session, and Authenticate
\* answers the same just before and just after it
SweepSparesActive ==
    ret' = Returned("sweep", "none")
        => /\ \A r \in sessions : IsActive(r) => r \in sessions'
           /\ \A token \in TokenInputs :
                 AuthenticateResult(Stored(sessions'), token, clock)
                     = AuthenticateResult(Stored(sessions), token, clock)

\* C16: the session sweep has no effect on authentication:
\* DeleteExpiredSessions never deletes an active session (revoked_at unset
\* and expires_at > now), and for every token and every interleaving
\* Authenticate(token) answers the same whether the sweep ran before it,
\* after it or not at all.
C16_SweepInvisible ==
    /\ []SweepInvisible
    /\ [][SweepSparesActive]_vars

\* the sweep has deleted an expired session and left an active one
C16_Witness ==
    /\ ret = Returned("sweep", "none")
    /\ \E r \in sessions : r.swept /\ ~r.revokedAt.valid
    /\ \E r \in sessions : IsActive(r)

\* the calls of EnableTOTP at one of pcs
EnableCalls(pcs) == { c \in InFlight : c.op = "enable" /\ c.pc \in pcs }

\* the Login request with the right password and recovery code x
RecoveryLogin(x) ==
    [email |-> KnownEmail, password |-> RegisteredPassword, totp |-> EmptyCode, recovery |-> x]

\* a correct current code for a stored, unconfirmed secret takes EnableTOTP
\* to repo.EnableTOTP
CorrectCodeEnables ==
    \A u \in MFAUsers : \A code \in TOTPInputs :
        ( /\ cred[u].secret /= 0 /\ ~cred[u].enabled /\ ~LockedNow(u)
          /\ VerifyTOTP(cred[u].secret, code, clock) )
            => EnableOutcome(cred[u], code, clock) = [pc |-> "enable", res |-> "none"]

\* when EnableTOTP has returned its codes, TOTP is enabled, the stored rows
\* are the 10 hashes of the codes returned, all unused, the password alone
\* is answered MFARequired and each code returned takes a Login to a
\* ConsumeRecoveryCode that finds its row
CodesIssued ==
    ret = Returned("enable", "Codes") =>
        LET codes == GenerateRecoveryCodes(nextBatch - 1, recoveryCodeCount)
        IN  /\ cred["u1"].enabled
            /\ Cardinality(codes) = recoveryCodeCount
            /\ codeRows["u1"] = { [hash |-> HashRecoveryCode(x), used |-> 0] : x \in codes }
            /\ Cardinality(codeRows["u1"]) = recoveryCodeCount
            /\ OutcomeNow(NoFactorLogin) = [pc |-> "done", res |-> "MFARequired"]
            /\ \A x \in codes :
                  /\ OutcomeNow(RecoveryLogin(x)) = [pc |-> "consume", res |-> "none"]
                  /\ Cardinality(ConsumeMatches(codeRows["u1"], HashRecoveryCode(x))) = 1

\* repo.EnableTOTP sets enabled, and the call goes on to store the batch it returns
EnableSteps ==
    /\ \A c \in EnableCalls({"enable"}) : EnableCommit(c) => cred'[c.user].enabled
    /\ \A c \in EnableCalls({"replace_commit"}) :
          ReplaceCommit(c) => c.batch = nextBatch - 1 /\ ret' = Returned("enable", "Codes")

\* C17: EnableTOTP with a correct current code for a previously set,
\* unconfirmed secret sets enabled = true and returns exactly 10 recovery
\* codes whose hashes are exactly the stored unused codes; afterwards Login
\* with the password alone returns MFARequired and each returned code
\* completes one Login.
C17_EnableIssuesCodes ==
    /\ [](CorrectCodeEnables /\ CodesIssued)
    /\ [][EnableSteps /\ ConsumeDecides /\ AdmittedGetsSession]_vars

\* a Login has completed with a code of the first batch, the other nine
\* codes being stored unused
C17_Witness ==
    /\ ret = Returned("login", "Session")
    /\ cred["u1"].enabled /\ nextBatch = 2 /\ nextSecret = 2
    /\ Cardinality({ r \in codeRows["u1"] : r.used = 0 }) = recoveryCodeCount - 1
    /\ Cardinality({ r \in codeRows["u1"] : r.used = 1 }) = 1

\* a correct code for a secret that is already enabled takes EnableTOTP
\* past repo.EnableTOTP, straight to the reset and the new batch
CorrectCodeRefreshes ==
    \A u \in MFAUsers : \A code \in TOTPInputs :
        cred[u].enabled /\ ~LockedNow(u) /\ VerifyTOTP(cred[u].secret, code, clock)
            => EnableOutcome(cred[u], code, clock) = [pc |-> "reset", res |-> "none"]

\* no code of a batch older than the last one issued has a stored row, used
\* or unused, and a Login that presents one reaches a ConsumeRecoveryCode
\* that finds nothing
PreviousBatchesRejected ==
    \A b \in 1..(nextBatch - 2) : \A x \in GenerateRecoveryCodes(b, recoveryCodeCount) :
        /\ RowsOf("u1", x) = {}
        /\ ConsumeMatches(codeRows["u1"], HashRecoveryCode(x)) = {}
        /\ OutcomeNow(RecoveryLogin(x)).pc \in {"consume", "done", "session"}
        /\ OutcomeNow(RecoveryLogin(x)).pc = "session" => ~cred["u1"].enabled

\* the refresh leaves enabled and the secret as they are
RefreshKeepsSecret ==
    \A c \in EnableCalls({"reset", "replace_delete", "replace_commit"}) :
        ResetFailures(c) \/ ReplaceDelete(c) \/ ReplaceCommit(c)
            => /\ cred'[c.user].enabled = cred[c.user].enabled
               /\ cred'[c.user].secret = cred[c.user].secret

\* C18: EnableTOTP with a correct code when TOTP is already enabled
\* succeeds as a recovery-code refresh: enabled stays true, the secret is
\* unchanged, a fresh batch of 10 codes is returned and stored, and every
\* code of the previous batch, used or unused, is rejected by Login from
\* then on.
C18_RefreshReplacesCodes ==
    /\ [](CorrectCodeRefreshes /\ PreviousBatchesRejected /\ CodesIssued)
    /\ [][RefreshKeepsSecret /\ ConsumeDecides /\ RefusedCodeFails]_vars

\* after a refresh, a Login that presented a code of the first batch is on
\* its way to RecordTOTPFailure; the second batch is stored untouched
C18_Witness ==
    /\ nextBatch = 3 /\ nextSecret = 2 /\ cred["u1"].enabled
    /\ \E c \in LoginCalls({"fail_select"}) : c.rc = <<1, 1>>
    /\ codeRows["u1"] = InsertedRows(BatchHashes(2))

\* with no secret stored EnableTOTP and VerifyTOTPForSession answer
\* MissingTOTPSecret whatever the code, and the account cannot be locked;
\* with a secret that is not enabled VerifyTOTPForSession answers
\* MissingTOTPSecret unless the account is locked, and then MFARateLimited
MissingSecretOutcome ==
    \A u \in MFAUsers : \A code \in TOTPInputs \cup {ShortCode} :
        /\ cred[u].secret = 0
              => /\ LockoutClear(u)
                 /\ EnableOutcome(cred[u], code, clock) = [pc |-> "done", res |-> "MissingTOTPSecret"]
                 /\ VerifyOutcome(cred[u], code, clock) = [pc |-> "done", res |-> "MissingTOTPSecret"]
        /\ cred[u].secret /= 0 /\ ~cred[u].enabled
              => VerifyOutcome(cred[u], code, clock) =
                    [pc |-> "done", res |-> IF LockedNow(u) THEN "MFARateLimited"
                                            ELSE "MissingTOTPSecret"]

\* a call that answers MissingTOTPSecret has written nothing, and so has a
\* VerifyTOTPForSession for a user whose TOTP is not enabled
MissingSecretWritesNothing ==
    /\ ret'.res = "MissingTOTPSecret"
          => UNCHANGED <<clock, cred, rowLock, codeRows, sessions, calls, failHist>>
    /\ ret'.op = "verify" /\ calls = EmptyBag /\ ~cred["u1"].enabled
          => /\ ret'.res \in {"MissingTOTPSecret", "MFARateLimited"}
             /\ UNCHANGED <<clock, cred, rowLock, codeRows, sessions, calls, failHist>>

\* C19 as amended: EnableTOTP for a user with no stored secret, and
\* VerifyTOTPForSession for a user with no stored secret or with TOTP not
\* enabled, return MissingTOTPSecret, except that VerifyTOTPForSession
\* returns MFARateLimited while the account is locked; in every case no MFA
\* failure is recorded and no stored state changes.
C19_MissingSecret ==
    /\ []MissingSecretOutcome
    /\ [][MissingSecretWritesNothing]_vars

\* VerifyTOTPForSession answered MissingTOTPSecret for a stored secret that
\* is not enabled and has failed EnableTOTP attempts on record
C19_Witness ==
    /\ ret = Returned("verify", "MissingTOTPSecret")
    /\ cred["u1"].secret /= 0 /\ ~cred["u1"].enabled
    /\ cred["u1"].failed > 0

\* C19 as stated: VerifyTOTPForSession for a user with TOTP not enabled
\* always returns MissingTOTPSecret.
C19_VerifyAlwaysMissingSecret ==
    [][ret'.op = "verify" /\ calls = EmptyBag /\ ~cred["u1"].enabled
          => ret'.res = "MissingTOTPSecret"]_vars

\* failed_attempts, window_started_at and locked_until of a row
LockoutFields(row) == <<row.failed, row.window, row.locked>>

\* C20 as stated: only RecordTOTPFailure and ResetTOTPFailures write the
\* lockout fields: a step of any other operation, BeginTOTPSetup and the
\* enable step of EnableTOTP among them, leaves failed_attempts,
\* window_started_at and locked_until as they are.  DisableTOTP, which is
\* to clear the lockout state, is left aside.
C20_OnlyGuardWritesLockout ==
    [][\A u \in Users :
          LockoutFields(cred'[u]) /= LockoutFields(cred[u]) /\ ret'.op /= "disable"
              => \E c \in InFlight : c.user = u /\ (FailUpdate(c) \/ ResetFailures(c))]_vars

\* a request with no e-mail left after trimming, or with no password
EmptyField(in) == NormalizeEmail(in.email) = <<>> \/ in.password = ""

\* such a request is answered InvalidCredentials on its own fields alone:
\* the answer is the same whatever GetUserAuthByEmail would have returned
EmptyFieldRefused ==
    \A in \in AllLoginInputs :
        EmptyField(in)
            => \A found \in BOOLEAN : \A u \in Users :
                   LoginOutcome(in, found, cred[u], clock)
                       = [pc |-> "done", res |-> "InvalidCredentials"]

\* and the call that gives this answer writes nothing and leaves no call behind
EmptyFieldWritesNothing ==
    ret' = Returned("login", "InvalidCredentials")
        => UNCHANGED <<cred, rowLock, codeRows, sessions, calls, nextToken, failHist>>

\* C21: Login with an e-mail that is empty after trimming, or with an empty
\* password, returns InvalidCredentials whatever the TOTP code and the
\* recovery code of the request are; the answer does not depend on what the
\* database holds (no record, any record) and the call writes nothing.
C21_EmptyFieldRefused ==
    /\ []EmptyFieldRefused
    /\ [][EmptyFieldWritesNothing]_vars

\* a Login was answered InvalidCredentials while the account has TOTP
\* enabled and is locked, where a blank e-mail with both factors gets that answer
C21_Witness ==
    /\ ret = Returned("login", "InvalidCredentials")
    /\ cred["u1"].enabled /\ cred["u1"].failed > 0
    /\ \E in \in AllLoginInputs :
           /\ in.email = BlankEmail /\ in.password = RegisteredPassword /\ BothFactors(in)
           /\ OutcomeNow(in).res = "InvalidCredentials"

\* a call at the SELECT of RecordTOTPFailure whose now is before locked_until
FindsLock(c) == c.pc = "fail_select" /\ isMFALocked(cred[c.user].locked, c.now)

\* RecordTOTPFailure on a locked account writes nothing, and its caller
\* answers from the lock expiry it was handed: MFARateLimited
LockedFailureWritesNothing ==
    \A c \in FailingCalls :
        FindsLock(c) /\ FailSelect(c)
            => /\ UNCHANGED <<cred, rowLock, codeRows, sessions>>
               /\ calls' = calls (-) One(c)
               /\ ret' = Returned(c.op, "MFARateLimited")

\* a lock that is in force is not moved: the only steps that change
\* locked_until then are those that clear it, none of them a RecordTOTPFailure
LiveLockNotMoved ==
    \A u \in Users :
        isMFALocked(cred[u].locked, clock) /\ cred'[u].locked /= cred[u].locked
            => /\ cred'[u].locked = NullTime
               /\ \A c \in FailingCalls : ~FailSelect(c) /\ ~FailUpdate(c)

\* locked_until is set by the UPDATE of a RecordTOTPFailure alone, to the
\* now of that call plus the lock duration
LockSetByFailure ==
    \A u \in Users :
        cred'[u].locked.valid /\ cred'[u].locked /= cred[u].locked
            => \E c \in FailingCalls :
                   /\ c.user = u /\ FailUpdate(c)
                   /\ cred'[u].locked = SomeTime(c.now + totpLockDuration)

\* C30: a RecordTOTPFailure call that finds the account locked returns the
\* lock expiry it read and leaves failed_attempts, window_started_at and
\* locked_until as they are; no failing request moves a lock that is in
\* force, and every lock is set to lock_duration after the now of the failure
\* that set it.
C30_LockNotExtended ==
    [][LockedFailureWritesNothing /\ LiveLockNotMoved /\ LockSetByFailure]_vars

\* a failing call reached RecordTOTPFailure after the fifth failure of
\* another call had locked the account, and was answered MFARateLimited
C30_Witness ==
    /\ failHist["u1"].ok /\ failHist["u1"].n = totpMaxAttempts /\ failHist["u1"].held = 1
    /\ cred["u1"].locked = SomeTime(failHist["u1"].fifth + totpLockDuration)
    /\ isMFALocked(cred["u1"].locked, clock)
    /\ calls = EmptyBag
    /\ ret.res = "MFARateLimited"

\* the time step a second belongs to: the n with 30 n <= x < 30 (n + 1), and
\* step 0 for the seconds before the epoch
StepOf(x) ==
    IF x < 0 THEN 0
    ELSE CHOOSE n \in 0..x : totpPeriod * n <= x /\ x < totpPeriod * (n + 1)

\* the code computed for the time step of second x
CodeOfStep(secret, x) == totpCodeForCounter(secret, StepOf(x))

\* the counters VerifyTOTP tries at t
Candidates(t) == { StepOf(t + k * totpPeriod) : k \in -1..1 }

\* C23: VerifyTOTP(secret, code, t) accepts the code computed for the time
\* step of t - 30 s, of t and of t + 30 s; it rejects a code of the secret
\* whose counter is that of t + 90 s or later, or earlier than that of
\* t - 30 s, and is none of the three; it accepts nothing else; and the three
\* counters it tries are floor((t + 30 k) / 30) for k = -1, 0, 1, with 0 for a
\* negative t + 30 k.
C23_TOTPWindow ==
    (probe.fn = "VerifyTOTP" /\ probe.done) =>
        LET t == probe.now
            code == probe.code
        IN  /\ (\E k \in -1..1 : code = CodeOfStep(probe.secret, t + k * totpPeriod))
                    => probe.out = "accept"
            /\ ( /\ code.k = "otp" /\ code.s = probe.secret
                 /\ code.c >= StepOf(t + 3 * totpPeriod) \/ code.c < StepOf(t - totpPeriod)
                 /\ code.c \notin Candidates(t) )
                    => probe.out = "reject"
            /\ probe.out = "accept"
                    => code.k = "otp" /\ code.s = probe.secret /\ code.c \in Candidates(t)
            /\ \A k \in -1..1 : counterFromTime(t, k) = StepOf(t + k * totpPeriod)

\* the code of the step of t + 90 s was rejected at a t in the first period,
\* where the step of t - 30 s is clamped to 0
C23_Witness ==
    /\ probe.fn = "VerifyTOTP" /\ probe.done /\ probe.out = "reject"
    /\ probe.now >= 0 /\ probe.now < totpPeriod
    /\ probe.code = CodeOfStep(probe.secret, probe.now + 3 * totpPeriod)

\* C24: for every password P and all parameters, VerifyPassword(P, salt,
\* hash, params) is true when (salt, hash) is what HashPassword(P, params)
\* returned, and VerifyPassword(Q, salt, hash, params) is false for every
\* other password Q, the KDF taken as injective.
C24_VerifyPassword ==
    (probe.fn = "VerifyPassword" /\ probe.done)
        => (probe.out = "true" <=> probe.attempt = probe.password)

\* a password was refused against the hash of another one, made with
\* parameters that are not the defaults
C24_Witness ==
    /\ probe.fn = "VerifyPassword" /\ probe.done /\ probe.out = "false"
    /\ probe.password = RegisteredPassword /\ probe.attempt = OtherPassword
    /\ probe.params /= DefaultArgon2Params

\* the members of a params value that name key, in whatever case
Naming(raw, key) == { i \in 1..Len(raw.members) : foldName(raw.members[i].key) = key }

\* a params value that names no number for key, or 0: no member of the
\* object has the key, or the last one that has it gives 0
ZeroOrMissing(raw, key) ==
    \/ Naming(raw, key) = {}
    \/ \E i \in Naming(raw, key) :
           /\ raw.members[i].val = 0
           /\ \A j \in Naming(raw, key) : j <= i

\* the inputs ParseArgon2Params must refuse
BadParams(raw) ==
    \/ raw.kind \in {"empty", "malformed"}
    \/ \E key \in ParamKeys : ZeroOrMissing(raw, key)

\* the field of params that holds the number of key
ParamField(params, key) ==
    IF key = "memory" THEN params.memory
    ELSE IF key = "iterations" THEN params.iterations
    ELSE IF key = "parallelism" THEN params.parallelism
    ELSE params.keyLength

\* ParseArgon2Params refuses them, and the params it returns beside the
\* error have nothing in them the bytes do not say: no field is filled from
\* the defaults
ParseRefuses ==
    (probe.fn = "ParseArgon2Params" /\ probe.done /\ BadParams(probe.raw))
        => /\ probe.out.err /= "none"
           /\ \A key \in ParamKeys :
                  ZeroOrMissing(probe.raw, key) => ParamField(probe.out.params, key) = 0
           /\ \A key \in ParamKeys :
                  \/ ParamField(probe.out.params, key) = 0
                  \/ \E i \in Naming(probe.raw, key) :
                         probe.raw.members[i].val = ParamField(probe.out.params, key)

\* what it accepts is what the bytes say
ParseReads ==
    (probe.fn = "ParseArgon2Params" /\ probe.done /\ probe.out.err = "none")
        => /\ ~BadParams(probe.raw)
           /\ \A key \in ParamKeys :
                  \E i \in Naming(probe.raw, key) :
                      probe.raw.members[i].val = ParamField(probe.out.params, key)

\* Parse(Marshal(p)) = p
ParseInvertsMarshal ==
    (probe.fn = "MarshalArgon2Params" /\ probe.done)
        => probe.out = [err |-> "none", params |-> probe.params]

\* Login to an account whose params column is refused fails with the
\* internal error whatever the password, and the account has no session
BadParamsFailLogin ==
    BadParams(cred["u1"].params)
        => /\ \A in \in KDFLoginInputs :
                  in.password /= ""
                      => OutcomeNow(in) = [pc |-> "done", res |-> "InternalError"]
           /\ \A r \in sessions : r.user /= "u1"
           /\ \A c \in InFlight : c.user /= "u1"

\* Login verifies the password with the parameters the column holds: with
\* valid ones, whatever they are, the right password is let in and no other
StoredParamsUsed ==
    ParseArgon2Params(cred["u1"].params).err = "none"
        => \A in \in KDFLoginInputs :
               IF in.password = RegisteredPassword
               THEN OutcomeNow(in) = [pc |-> "session", res |-> "none"]
               ELSE OutcomeNow(in) = [pc |-> "done", res |-> "InvalidCredentials"]

\* the call that fails so writes nothing
InternalErrorWritesNothing ==
    ret' = Returned("login", "InternalError")
        => UNCHANGED <<cred, rowLock, codeRows, sessions, calls, nextToken, failHist>>

\* C25: ParseArgon2Params returns an error, and no parameters, for empty
\* input, for text that is not JSON and for every parameter set in which
\* memory, iterations, parallelism or key_length is zero or missing; Login
\* to an account with such parameters fails with an internal error whatever
\* the password, writes nothing and creates no session; with valid
\* parameters Login verifies the password with exactly those; and for valid
\* parameters p, ParseArgon2Params(MarshalArgon2Params(p)) = p.
C25_ParamsNeverDefaulted ==
    /\ [](ParseRefuses /\ ParseReads /\ ParseInvertsMarshal /\ BadParamsFailLogin
            /\ StoredParamsUsed)
    /\ [][InternalErrorWritesNothing]_vars

\* a Login with the right password failed with the internal error on an
\* account whose params column lacks key_length
C25_Witness ==
    /\ ret = Returned("login", "InternalError")
    /\ cred["u1"].params.kind = "object"
    /\ ZeroOrMissing(cred["u1"].params, "key_length")
    /\ ~ZeroOrMissing(cred["u1"].params, "memory")
    /\ cred["u1"].hash = HashPassword(RegisteredPassword, DefaultArgon2Params, RegisteredSalt).hash
    /\ sessions = {}

\* the e-mail of an account with blanks trimmed and letters folded to lower case
Folded(email) == [i \in 1..Len(TrimOrEmpty(email)) |-> Lower(TrimOrEmpty(email)[i])]

Accounts == DOMAIN cred
RegisterCalls(pc) == { c \in InFlight : c.op = "register" /\ c.pc = pc }

\* no two accounts have e-mails that are equal after trimming and folding,
\* and no transaction holds a users row with the e-mail of an account or of
\* another transaction's row
UniqueEmails ==
    /\ \A u, v \in Accounts : Folded(cred[u].email) = Folded(cred[v].email) => u = v
    /\ \A c \in RegisterCalls("insert_cred") :
           /\ \A u \in Accounts : Folded(cred[u].email) /= Folded(c.email)
           /\ \A d \in RegisterCalls("insert_cred") : Folded(d.email) = Folded(c.email) => d = c
           /\ calls[c] = 1

\* a Register call whose e-mail is that of an account gets EmailTaken
TakenIsRefused ==
    \A c \in RegisterCalls("insert_user") :
        ( /\ \E u \in Accounts : Folded(cred[u].email) = Folded(c.email)
          /\ RegisterInsertUser(c) )
            => ret' = Returned("register", "EmailTaken")

\* the call that gets EmailTaken creates and changes no record
EmailTakenWritesNothing ==
    ret' = Returned("register", "EmailTaken")
        => /\ UNCHANGED <<cred, rowLock, codeRows, sessions>>
           /\ \A c \in InFlight' : c \in InFlight

\* a Register call that has inserted its users row succeeds: it creates the
\* account with the normalized e-mail and changes no other
HolderSucceeds ==
    \A c \in RegisterCalls("insert_cred") :
        RegisterCommit(c)
            => /\ ret'.res = "Registered" /\ ret'.user = c.user
               /\ c.user \notin Accounts
               /\ cred'[c.user].email = Folded(c.email)
               /\ \A u \in Accounts : cred'[u] = cred[u]

\* C22: e-mails are unique case-insensitively: Register with an e-mail that
\* equals a registered one after trimming and case-folding returns
\* EmailTaken and creates or changes no user or credential record; of
\* concurrent Register calls for one normalized e-mail the one whose INSERT
\* is let through succeeds and every other gets EmailTaken, so that no two
\* accounts ever share an e-mail.
C22_UniqueEmails ==
    /\ []UniqueEmails
    /\ [][TakenIsRefused /\ EmailTakenWritesNothing /\ HolderSucceeds]_vars

\* of two concurrent Register calls with B and b as e-mails one has
\* succeeded, and the other stands before its INSERT
C22_Witness ==
    /\ ret.op = "register" /\ ret.res = "Registered"
    /\ cred[ret.user].email = UnknownEmail
    /\ \E c \in RegisterCalls("insert_user") : c.email = UnknownEmail

(* ---- the vault envelope ------------------------------------------------ *)
\* decryptVaultItem has been called on the item encryptVaultItem returned
Opened == vault.stage = "opened"
\* ... on the item as it was returned, with the key and the associated data that sealed it
SameKeyAndData == Opened /\ vault.tamper = "none" /\ vault.usedKek = vault.kek
                    /\ vault.usedAad = vault.aad
AuthenticationFailed == "ciphertext authentication failed"

\* C26: for every plaintext M, every key K of the cipher's key length and
\* every associated data A, decrypting with K and A the item that
\* encrypting M with K and A returned gives M.
C26_RoundTrip ==
    SameKeyAndData /\ Len(vault.kek) = KeyLength => vault.err = "none" /\ vault.text = vault.plain

\* A round trip that returned a string other than the plaintext.
C26_Lost == SameKeyAndData /\ vault.err = "none" /\ vault.text /= vault.plain

\* the effective associated data of the two calls differ
OtherData == AadBytes(vault.usedAad) /= AadBytes(vault.aad)
OtherKey == vault.usedKek /= vault.kek
UsableKey == Len(vault.usedKek) = KeyLength

\* C27: decryptVaultItem never returns altered plaintext.  Of a valid
\* payload with one byte of ciphertext, wrappedDek, nonce or wrapNonce
\* changed, or opened with a different key of the cipher's key length, or
\* with different associated data, the call fails with the
\* authentication-failure error; every failing call returns no text, and
\* every call that returns, returns the text of the bytes that were sealed.
C27_NoAlteredPlaintext ==
    Opened =>
      /\ UsableKey /\ vault.tamper \in {"none", "byte"}
            /\ (vault.tamper = "byte" \/ OtherKey \/ OtherData)
         => vault.err = AuthenticationFailed
      /\ vault.err /= "none" => vault.text = <<>>
      /\ vault.err = "none" => vault.text = bytesToUtf8(utf8ToBytes(vault.plain))

\* A byte of the content changed, refused at the second open under the right key.
C27_Witness ==
    /\ Opened /\ vault.plain = <<8364, 97, 97>> /\ vault.tamper = "byte"
    /\ ~OtherKey /\ ~OtherData /\ vault.opens = 2
    /\ vault.err = AuthenticationFailed /\ vault.text = <<>>

\* the buffer holds only zero bytes
Zeroed(buffer) == \A i \in 1..Len(buffer) : buffer[i] = 0

\* C28: when encryptVaultItem returns or throws, and when decryptVaultItem
\* returns or throws, the DEK buffer that call generated or unwrapped
\* holds only zero bytes.
C28_DEKZeroed == vault.stage \in {"sealed", "failed", "opened"} => Zeroed(vault.dek)

\* decryptVaultItem has returned and the key it unwrapped is still in memory.
C28_Left == Opened /\ vault.err = "none" /\ vault.dek /= <<>> /\ ~Zeroed(vault.dek)

\* a base64 field that is empty, or whose length is no multiple of 4, or
\* that holds a character outside the alphabet, or "=" anywhere but as the
\* last character or the last two
Malformed(s) ==
    \/ s = <<>>
    \/ Len(s) % 4 /= 0
    \/ \E i \in 1..Len(s) : s[i] = BadChar
    \/ \E i \in 1..Len(s) : s[i] = PadChar /\ i < Len(s) - 1
    \/ Len(s) >= 2 /\ s[Len(s) - 1] = PadChar /\ s[Len(s)] /= PadChar
Invalid(item) == item.version /= Version1 \/ \E f \in Fields : Malformed(item[f])
FormatErrors ==
    {"unsupported vault item version", "payload is missing required encrypted fields",
     "invalid base64 input"}

\* C29: a payload with an unknown version, or with one of the four base64
\* fields malformed, is rejected before any AEAD open is attempted, with
\* an error that is not the authentication-failure error, and with one of
\* the format errors whenever the key has the cipher's key length, be it
\* the key that sealed the item or another.
C29_ValidatedFirst ==
    Opened /\ Invalid(vault.item) =>
      /\ vault.opens = 0 /\ vault.text = <<>>
      /\ vault.err \notin {"none", AuthenticationFailed}
      /\ UsableKey => vault.err \in FormatErrors

\* A malformed field refused under the right key.
C29_Witness ==
    /\ Opened /\ ~OtherKey /\ ~OtherData /\ vault.item.version = Version1
    /\ \E f \in Fields : Malformed(vault.item[f]) /\ vault.item[f] /= <<>>
    /\ vault.err = "invalid base64 input" /\ vault.opens = 0

(* ---- the failure window ------------------------------------------------ *)
\* the calls whose RecordTOTPFailure has read an unlocked row and is about
\* to write it
WritingCalls == { c \in InFlight : c.pc = "fail_update" }

\* no window is open for the row, or its window is older than the attempt
\* window at the time now
WindowOver(row, now) == ~row.window.valid \/ now - row.window.time > totpAttemptWindow

\* the write of RecordTOTPFailure: a failure outside any window is failure 1
\* of a window that starts now; a failure inside the window adds one to the
\* counter and leaves window_started_at alone, unless it is the one that locks
WindowRule ==
    \A c \in WritingCalls :
        FailUpdate(c) =>
            LET row == cred[c.user]
                new == cred'[c.user]
            IN  IF WindowOver(row, c.now)
                THEN new.failed = 1 /\ new.window = SomeTime(c.now) /\ ~new.locked.valid
                ELSE \/ /\ new.failed = row.failed + 1 /\ new.window = row.window
                        /\ ~new.locked.valid
                     \/ new.locked.valid /\ row.failed + 1 = totpMaxAttempts

\* a lock is set only by the failure that completes max_attempts failures
\* counted from the first failure of a window that is still open
LockInsideWindow ==
    \A u \in Users :
        cred'[u].locked.valid /\ cred'[u].locked /= cred[u].locked
            => \E c \in WritingCalls :
                   /\ c.user = u /\ FailUpdate(c)
                   /\ cred[u].failed = totpMaxAttempts - 1
                   /\ cred[u].window.valid
                   /\ c.now - cred[u].window.time <= totpAttemptWindow

\* the counter counts the failures of the open window: while the failures
\* since the fields were cleared all fall inside the window of the first,
\* failed_attempts is their number and window_started_at the time of the first
CountsOpenWindow ==
    \A u \in Users :
        failHist[u].ok /\ failHist[u].n \in 1..(totpMaxAttempts - 1)
            => /\ cred[u].failed = failHist[u].n
               /\ cred[u].window = SomeTime(failHist[u].first)

\* C31: RecordTOTPFailure on an account that is not locked starts a new
\* window (counter 1, window_started_at now) when no window is open or the
\* open one is older than the attempt window, and otherwise increments the
\* counter and keeps the window; so a lock needs max_attempts failures inside
\* one window measured from its first failure, and failures that are each
\* more than a window apart never lock.
C31_WindowedCount ==
    /\ []CountsOpenWindow
    /\ [][WindowRule /\ LockInsideWindow]_vars

\* a failure came after the window of earlier failures had run out and is
\* failure 1 of a window of its own
C31_Witness ==
    /\ ~failHist["u1"].ok
    /\ cred["u1"].failed = 1
    /\ cred["u1"].window.valid /\ cred["u1"].window.time > totpAttemptWindow
    /\ ~cred["u1"].locked.valid
    /\ ret.res = "InvalidMFA"

\* the counter stays below max_attempts, and a counter above 0 has its window
CounterInRange ==
    \A u \in Users :
        /\ cred[u].failed \in 0..(totpMaxAttempts - 1)
        /\ cred[u].failed > 0 => cred[u].window.valid

\* the failure that sets a lock leaves locked_until at its now plus the lock
\* duration, the counter at 0 and no window
LockingWrite ==
    \A c \in WritingCalls :
        FailUpdate(c) /\ cred'[c.user].locked.valid
            => cred'[c.user] = [cred[c.user] EXCEPT
                                   !.locked = SomeTime(c.now + totpLockDuration),
                                   !.failed = 0,
                                   !.window = NullTime]

\* C32: in every reachable state 0 <= failed_attempts < max_attempts, and
\* failed_attempts > 0 implies that window_started_at is set; right after
\* the failure that sets a lock, locked_until is now + lock_duration,
\* failed_attempts is 0 and window_started_at is unset.
C32_CounterBounded ==
    /\ []CounterInRange
    /\ [][LockingWrite]_vars

\* the fifth failure of a window has just set the lock, with calls of other
\* operations still in flight
C32_Witness ==
    /\ failHist["u1"].ok /\ failHist["u1"].n = totpMaxAttempts /\ failHist["u1"].held = 0
    /\ cred["u1"].locked = SomeTime(failHist["u1"].fifth + totpLockDuration)
    /\ cred["u1"].failed = 0 /\ ~cred["u1"].window.valid
    /\ ret.res = "MFARateLimited"
    /\ calls /= EmptyBag

(* ---- Logout ------------------------------------------------------------ *)
\* the stored sessions a presented token names that were never revoked and
\* have expired
ExpiredFor(token) ==
    { r \in Stored(sessions) : /\ r.tokenHash = HashToken(token, Pepper)
                               /\ ~r.revokedAt.valid
                               /\ r.expiresAt <= clock }

\* C35: Logout(token) returns success only if the session of the token was
\* active at the call (revoked_at unset and expires_at > now); for a session
\* that has expired and was never revoked it returns UnauthorizedSession and
\* leaves the row as it is.
C35_LogoutOnlyActive ==
    [][\A token \in TokenInputs :
          Logout(token) =>
              /\ ret' = Returned("logout", "LoggedOut") => ActiveFor(token) /= {}
              /\ ExpiredFor(token) /= {}
                    => /\ ret' = Returned("logout", "UnauthorizedSession")
                       /\ sessions' = sessions]_vars

\* the rows of the sessions table that a token does not name
OtherSessions(token) == { r \in sessions : r.tokenHash /= HashToken(token, Pepper) }

\* Logout of a token with an active session succeeds; a Logout that succeeds
\* has set revoked_at of the one row of its token, which had none; one that
\* is refused leaves the stored rows as they are; and no Logout touches a
\* row of another token
LogoutOneRow ==
    \A token \in TokenInputs :
        Logout(token) =>
            /\ ActiveFor(token) /= {} => ret' = Returned("logout", "LoggedOut")
            /\ ret' = Returned("logout", "LoggedOut")
                  => \E r \in Stored(sessions) :
                        /\ r.tokenHash = HashToken(token, Pepper) /\ ~r.revokedAt.valid
                        /\ sessions' = (sessions \ {r})
                                          \cup {[r EXCEPT !.revokedAt = SomeTime(clock)]}
            /\ ret' = Returned("logout", "UnauthorizedSession")
                  => Stored(sessions') = Stored(sessions)
            /\ \A r \in OtherSessions(token) : r \in sessions'

\* after a Logout that succeeded, the next Logout of the same token is refused
LogoutNotTwice ==
    \A token \in TokenInputs :
        Logout(token) /\ ret' = Returned("logout", "LoggedOut")
            => LogoutResult(Stored(sessions'), token) = Returned("logout", "UnauthorizedSession")

\* C36: of any number of concurrent Logout calls with the same active token
\* exactly one returns success and the others return UnauthorizedSession,
\* and a Logout of one session never changes revoked_at of another session,
\* of the same user or of another.
C36_LogoutExactlyOnce ==
    /\ []RevokedStaysOut
    /\ [][LogoutOneRow /\ LogoutNotTwice /\ RevokedAtKept]_vars

\* a Logout has just been refused while a revoked session that has not
\* expired is stored beside a session of the same user that is still active
C36_Witness ==
    /\ ret = Returned("logout", "UnauthorizedSession")
    /\ \E r1, r2 \in Stored(sessions) :
           /\ r1.user = r2.user
           /\ r1.revokedAt.valid /\ r1.expiresAt > clock
           /\ IsActive(r2)

(* ---- lockout and the password-only login -------------------------------- *)
\* lockout columns a row can hold at the current time: the least and the
\* greatest counter, no lock, a lock that has run out, one that is in force
LockoutColumns ==
    [failed : {0, totpMaxAttempts - 1},
     locked : {NullTime, SomeTime(clock), SomeTime(clock + totpLockDuration)}]

\* for an account without TOTP enabled, Login with the right password and
\* at most one factor field goes on to create its session, with the lockout
\* columns the row has and with any others in their place
PasswordAloneAdmits ==
    \A u \in MFAUsers :
        ~cred[u].enabled /\ CorrectPassword(NoFactorLogin)
            => /\ \A in \in PasswordLogins :
                     ~BothFactors(in) => OutcomeNow(in) = [pc |-> "session", res |-> "none"]
               /\ \A col \in LockoutColumns :
                     LoginOutcome(NoFactorLogin, TRUE,
                                  [cred[u] EXCEPT !.failed = col.failed, !.locked = col.locked],
                                  clock)
                         = [pc |-> "session", res |-> "none"]

\* a lock set by failed EnableTOTP attempts keeps EnableTOTP out
EnableRateLimited ==
    \A u \in MFAUsers : \A code \in TOTPInputs :
        ~cred[u].enabled /\ LockedNow(u)
            => EnableOutcome(cred[u], code, clock) = [pc |-> "done", res |-> "MFARateLimited"]

\* the Login that went on to its session returns it, whatever the lockout
\* columns of its user have become
SessionWhateverLockout ==
    \A c \in LoginCalls({"session"}) :
        LoginSession(c)
            => /\ ret' = Returned("login", "Session")
               /\ \E r \in sessions' \ sessions : r.user = c.user /\ ~r.revokedAt.valid

\* C34: lockout state never blocks a password-only login: for a user whose
\* TOTP is not enabled, Login with the correct password returns a session
\* whatever failed_attempts and locked_until are; failed EnableTOTP attempts
\* can rate-limit EnableTOTP but cannot lock the user out of Login.
C34_PasswordLoginNeverLocked ==
    /\ [](PasswordAloneAdmits /\ EnableRateLimited)
    /\ [][SessionWhateverLockout]_vars

\* the account was locked by failed EnableTOTP attempts, and a Login made
\* while the lock is in force has just returned its session
C34_Witness ==
    /\ ret = Returned("login", "Session")
    /\ ~cred["u1"].enabled /\ cred["u1"].secret /= 0
    /\ LockedNow("u1")
    /\ \E r \in sessions : r.user = "u1" /\ r.expiresAt = clock + sessionTTL

(* ---- recovery codes and failed logins ------------------------------------ *)
\* the Login calls that carry a recovery code which ConsumeRecoveryCode matched
MatchedCalls == { c \in LoginCalls({"reset", "session"}) : c.rc /= NoRecovery }

\* C33: a recovery code is spent only by a Login that succeeds: whenever
\* Login with a recovery code returns an error, a storage failure in
\* ResetTOTPFailures or CreateSession after the code matched included, the
\* used_at of the code is unchanged and the code can still complete a later
\* Login.
C33_SpentOnlyBySuccess ==
    [][\A c \in MatchedCalls :
          calls' = calls (-) One(c) /\ ret' /= Returned("login", "Session")
              => /\ \A r \in codeRows'[c.user] :
                       r.hash = HashRecoveryCode(c.rc) => r.used = 0
                 /\ ConsumeMatches(codeRows'[c.user], HashRecoveryCode(c.rc)) /= {}]_vars

(* ---- user creation ------------------------------------------------------- *)
\* a users row exists exactly when its auth_credentials row does, and the
\* two are the rows GetUserAuthByEmail joins
RowsPaired ==
    /\ { row.id : row \in users } = DOMAIN cred
    /\ \A row \in users : cred[row.id].email = row.email
    /\ \A r1, r2 \in users : r1.id = r2.id \/ r1.email = r2.email => r1 = r2

\* the Register calls whose users row is inserted and not committed
InsertedCalls == { c \in InFlight : c.op = "register" /\ c.pc = "insert_cred" }

\* a Register that returns an error has left both tables as they were
FailedRegisterWritesNothing ==
    ret'.op = "register" /\ ret'.res /= "Registered" => UNCHANGED <<users, cred>>

\* the account of a Register that succeeded is new, with TOTP disabled, no
\* secret, no failed attempts, no window and no lock
FreshUserClean ==
    \A c \in InsertedCalls :
        RegisterCommit(c)
            => /\ c.user \notin DOMAIN cred
               /\ ret'.res = "Registered" /\ ret'.user = c.user
               /\ UserRow(c.user, c.email) \in users'
               /\ ~cred'[c.user].enabled /\ cred'[c.user].secret = 0
               /\ cred'[c.user].failed = 0
               /\ ~cred'[c.user].window.valid /\ ~cred'[c.user].locked.valid

\* C37: user creation is all-or-nothing: in every reachable state, also
\* after a Register that failed or found its e-mail taken, a users row
\* exists if and only if its auth_credentials row exists; a freshly
\* registered user has TOTP disabled, no secret, failed_attempts 0 and no lock.
C37_UserCreationAtomic ==
    /\ []RowsPaired
    /\ [][FailedRegisterWritesNothing /\ FreshUserClean]_vars

\* a Register whose users row was inserted has failed at its second INSERT
\* while another Register, of the same e-mail, waits to insert its own
C37_Witness ==
    /\ ret = Returned("register", "InsertCredentialError")
    /\ Cardinality(users) = Cardinality(Users)
    /\ \E c \in InFlight : c.op = "register" /\ c.pc = "insert_user"

(* ---- vault items and their owner ----------------------------------------- *)
\* the user ids a session can carry
Owners == { <<u>> : u \in Users }

\* the stored items with the id a request names that belong to another user
\* than the one the request is made for
ForeignItems(userID, itemID) ==
    { r \in Kept(items) : r.id = TrimOrEmpty(itemID) /\ r.owner /= TrimOrEmpty(userID) }

\* the calls made for a user with the id of an item of another user
ForeignCalls ==
    { call \in [user : CallerIDs, item : ItemIDInputs] :
        TrimOrEmpty(call.user) \in Owners /\ ForeignItems(call.user, call.item) /= {} }

\* those of them the last return can be the answer to
ForeignCallsReturned(r) ==
    IF r.user \notin Owners \/ \A row \in Kept(items) : row.id /= r.id \/ row.owner = r.user
    THEN {}
    ELSE { call \in ForeignCalls :
             TrimOrEmpty(call.user) = r.user /\ TrimOrEmpty(call.item) = r.id }

\* the rows of a list
Listed(rows) == { rows[i] : i \in 1..Len(rows) }

\* ListItems returns the items of its user, all of them, each once, and no
\* others, latest update first
ListsOwnItems ==
    ret'.op = "list" => \A userID \in CallerIDs :
        TrimOrEmpty(userID) = ret'.user /\ ret'.user \in Owners /\ ListItems(userID)
            => /\ ret'.res = "Items"
               /\ Listed(ret'.rows) = { r \in Kept(items) : r.owner = TrimOrEmpty(userID) }
               /\ Len(ret'.rows) = Cardinality(Listed(ret'.rows))
               /\ \A r \in Listed(ret'.rows) : r.owner = TrimOrEmpty(userID)
               /\ \A i, j \in 1..Len(ret'.rows) :
                      i < j => ret'.rows[i].updatedAt > ret'.rows[j].updatedAt

\* CreateItem stores the user it is called for as the owner, whoever the
\* request body names, and no call changes the owner of a stored item
OwnerIsCaller ==
    /\ ret'.op = "create" /\ ret'.res = "Item"
          => \A userID \in CallerIDs : \A owner \in InputOwners : \A data \in Payloads :
                TrimOrEmpty(userID) = ret'.user /\ CreateItem(userID, owner, data)
                    => \E r \in items' \ items :
                          /\ r.owner = TrimOrEmpty(userID) /\ r.data = data
                          /\ ret'.rows = {r} /\ items' = items \cup {r}
    /\ \A r \in items : \E r2 \in items' : r2.id = r.id /\ r2.owner = r.owner

\* GetItem and DeleteItem with the id of another user's item return NotFound
\* and write nothing
ForeignItemHidden ==
    ret'.op \in {"get", "delete"} => \A call \in ForeignCallsReturned(ret') :
        GetItem(call.user, call.item) \/ DeleteItem(call.user, call.item)
            => ret'.res = "NotFound" /\ items' = items

\* UpdateItem with the id of another user's item writes nothing, and returns
\* InvalidVaultPayload for a payload that validateVaultPayload rejects,
\* NotFound for any other
ForeignUpdateRefused ==
    ret'.op = "update" => \A call \in ForeignCallsReturned(ret') : \A data \in Payloads :
        UpdateItem(call.user, call.item, data)
            => /\ ret'.res = IF validateVaultPayload(data) THEN "NotFound"
                              ELSE "InvalidVaultPayload"
               /\ items' = items

\* every stored item belongs to one user, and has an id of its own
OneOwnerEach ==
    /\ \A r \in items : r.owner \in Owners
    /\ \A r1, r2 \in items : r1.id = r2.id => r1 = r2

\* C38 as amended: vault items are single-owner: GetItem and DeleteItem
\* called by user U with the id of an item owned by another user return
\* NotFound, and so does UpdateItem unless its payload is invalid, which
\* returns InvalidVaultPayload before the item is looked up; all three leave
\* that item unchanged; ListItems(U) returns only U's items; CreateItem
\* always stores the caller's user id as owner whatever the input carries.
C38_SingleOwner ==
    /\ []OneOwnerEach
    /\ [][ForeignItemHidden /\ ForeignUpdateRefused /\ ListsOwnItems /\ OwnerIsCaller]_vars

\* an UpdateItem made for one user with the id of an item the other user
\* holds was answered NotFound
C38_Witness ==
    /\ ret.op = "update" /\ ret.res = "NotFound" /\ ret.user \in Owners
    /\ \E r \in Kept(items) : r.id = ret.id /\ r.owner /= ret.user

\* C38 as stated: UpdateItem called by user U with the id of an item owned
\* by another user returns NotFound, whatever its payload.
C38_ForeignUpdateNotFound ==
    [][ret'.op = "update" =>
          \A call \in ForeignCalls : \A data \in Payloads :
              UpdateItem(call.user, call.item, data)
                  => ret'.res = "NotFound" /\ items' = items]_vars

====
